---------------------------- MODULE Spec2Model ----------------------------
(* A model of src/flashcards.py: the ScoreStore, the DeckStorage and the    *)
(* study-session part of the AppController.  The caller (the view, or any   *)
(* other frontend) may invoke any controller method at any time with any    *)
(* argument, so every action below is one controller method run to          *)
(* completion, its storage calls included.                                  *)
EXTENDS Integers, Sequences, FiniteSets, TLC

(***************************************************************************)
(* Bounds of the model.                                                    *)
(***************************************************************************)
\* at most this many private decks exist at a time
MaxDecks == 1
\* save_card does not create a card in a deck whose next_id exceeds this
MaxLocalId == 1
\* no more than this many scoring calls reach the ScoreStore
MaxScorings == 2
\* no session id beyond this one is allocated
MaxSid == 3
\* the ScoreStore, called on its own, is called at most this many times
MaxRecords == 4
\* the storage's create_card is not called on a deck whose next_id exceeds this
MaxNextId == 2
\* the storage's create_deck is not called once this many deck files exist
MaxFiles == 3

(***************************************************************************)
(* Values.                                                                 *)
(***************************************************************************)
\* Python's None, and a present value, for a field that may hold either
None == << >>
Some(x) == << x >>

\* a dict: a function with a finite domain
EmptyDict == [k \in {} |-> {}]
DictPut(d, k, v) == [x \in (DOMAIN d) \cup {k} |-> IF x = k THEN v ELSE d[x]]
DictPop(d, k) == [x \in (DOMAIN d) \ {k} |-> d[x]]

\* the elements of a sequence that satisfy a test, in order
RECURSIVE SelectIdx(_, _, _)
SelectIdx(s, keep, i) ==
    IF i > Len(s) THEN << >>
    ELSE (IF i \in keep THEN << s[i] >> ELSE << >>) \o SelectIdx(s, keep, i + 1)

\* a shuffle that draws every position anew: elements may repeat or drop out
Shuffles_with_repeats(s) ==
    LET n == Len(s)
    IN  { [i \in 1..n |-> s[p[i]]] : p \in [1..n -> 1..n] }

\* every reordering of a sequence: what random.shuffle may leave behind
Shuffles(s) ==
    LET n == Len(s)
        bij == { p \in [1..n -> 1..n] : \A i, j \in 1..n : p[i] = p[j] => i = j }
    IN  { [i \in 1..n |-> s[p[i]]] : p \in bij }

\* str(n) of a non-negative integer, as its decimal digits
RECURSIVE Str(_)
Str(n) ==
    LET digit(d) == << "0", "1", "2", "3", "4", "5", "6", "7", "8", "9" >>[d + 1]
    IN  IF n < 10 THEN << digit(n) >> ELSE Str(n \div 10) \o << digit(n % 10) >>

(***************************************************************************)
(* Directory layout.  A deck path is base directory, folder and file name; *)
(* a file name is a sequence of characters.                                *)
(***************************************************************************)
BASE_DIR == "base"
PUBLIC_DIR == [base |-> BASE_DIR, folder |-> "public_flashcards"]
PRIVATE_DIR == [base |-> BASE_DIR, folder |-> "private_flashcards"]

PathJoin(folder, file) == [base |-> folder.base, folder |-> folder.folder, file |-> file]

(***************************************************************************)
(* Strings that the code takes apart are sequences of characters.          *)
(***************************************************************************)
\* s.strip(): leading and trailing blanks removed
RECURSIVE LStrip(_)
LStrip(s) == IF s # << >> /\ Head(s) = " " THEN LStrip(Tail(s)) ELSE s
RECURSIVE RStrip(_)
RStrip(s) == IF s # << >> /\ s[Len(s)] = " " THEN RStrip(SubSeq(s, 1, Len(s) - 1)) ELSE s
\* s, were strip() left out
Strip_omitted(s) == s
Strip(s) == RStrip(LStrip(s))

\* s.lower(), over the letters the model uses
LowerChar(c) ==
    CASE c = "G" -> "g" [] c = "H" -> "h" [] c = "T" -> "t" [] c = "U" -> "u" [] OTHER -> c
Lower(s) == [i \in 1..Len(s) |-> LowerChar(s[i])]

\* a < b on strings: by code points, over the characters the model sorts
CodePoint(c) ==
    CASE c = " " -> 32 [] c = "g" -> 103 [] c = "h" -> 104 [] c = "t" -> 116
      [] c = "u" -> 117 [] OTHER -> 0
RECURSIVE StrLess(_, _)
StrLess(a, b) ==
    IF b = << >> THEN FALSE
    ELSE IF a = << >> THEN TRUE
    ELSE IF CodePoint(Head(a)) # CodePoint(Head(b))
    THEN CodePoint(Head(a)) < CodePoint(Head(b))
    ELSE StrLess(Tail(a), Tail(b))

\* s.split(","): the pieces between commas, empty pieces included
RECURSIVE SplitComma(_, _)
SplitComma(s, cur) ==
    IF s = << >> THEN << cur >>
    ELSE IF Head(s) = "," THEN << cur >> \o SplitComma(Tail(s), << >>)
    ELSE SplitComma(Tail(s), cur \o << Head(s) >>)

(***************************************************************************)
(* ScoreStore: data maps relative path -> str(local id) -> <<correct,      *)
(* incorrect>>; scores_file is what _flush last wrote (None: no file).     *)
(***************************************************************************)
\* the key of a deck: its path relative to the base directory
ScoreStore_rel(abs_path) == << abs_path.folder, abs_path.file >>

ScoreStore_get(data, deck_path, local_id) ==
    LET rel == ScoreStore_rel(deck_path)
        k == Str(local_id)
    IN  IF rel \in DOMAIN data /\ k \in DOMAIN data[rel]
        THEN << data[rel][k][1], data[rel][k][2] >>
        ELSE << 0, 0 >>

\* setdefault(rel, {}).setdefault(str(local_id), [0, 0])
ScoreStore_setdefault(data, rel, k) ==
    LET d1 == IF rel \in DOMAIN data THEN data ELSE DictPut(data, rel, EmptyDict)
    IN  IF k \in DOMAIN d1[rel] THEN d1
        ELSE DictPut(d1, rel, DictPut(d1[rel], k, << 0, 0 >>))

\* a record_incorrect that bumps the other counter of the pair
ScoreStore_record_incorrect_swapped(data, deck_path, local_id) ==
    LET rel == ScoreStore_rel(deck_path)
        k == Str(local_id)
        d == ScoreStore_setdefault(data, rel, k)
    IN  DictPut(d, rel, DictPut(d[rel], k, << d[rel][k][1] + 1, d[rel][k][2] >>))

ScoreStore_record_incorrect(data, deck_path, local_id) ==
    LET rel == ScoreStore_rel(deck_path)
        k == Str(local_id)
        d == ScoreStore_setdefault(data, rel, k)
    IN  DictPut(d, rel, DictPut(d[rel], k, << d[rel][k][1], d[rel][k][2] + 1 >>))

ScoreStore_record_correct(data, deck_path, local_id) ==
    LET rel == ScoreStore_rel(deck_path)
        k == Str(local_id)
        d == ScoreStore_setdefault(data, rel, k)
    IN  DictPut(d, rel, DictPut(d[rel], k, << d[rel][k][1] + 1, d[rel][k][2] >>))


(***************************************************************************)
(* DeckStorage.  Its state st is a record of the deck files on disk        *)
(* (files: path -> deck), the ScoreStore (data, scores_file) and the       *)
(* session-id registry (registry, reverse, next_sid).  Every operation     *)
(* returns [st, ret, exc]: the state it leaves, what it returns, and the   *)
(* exception it raises ("" when it returns normally).                      *)
(***************************************************************************)
NoExc == ""
Result(st, ret, exc) == [st |-> st, ret |-> ret, exc |-> exc]

\* int(text) of the decimal digits of a non-negative integer
DigitValue(c) == CHOOSE d \in 0..9 : Str(d) = << c >>
RECURSIVE ParseNat(_)
ParseNat(digits) ==
    IF digits = << >> THEN 0
    ELSE ParseNat(SubSeq(digits, 1, Len(digits) - 1)) * 10 + DigitValue(digits[Len(digits)])

\* json.dump of the store: a JSON object is the set of its members <<key,
\* value>>, the value of a deck an object again, the value of a card the
\* text of the array [correct, incorrect] (white space left out)
JsonDumpPair(pair) == << "[" >> \o Str(pair[1]) \o << "," >> \o Str(pair[2]) \o << "]" >>
JsonDumpScores(data) ==
    { << rel, { << k, JsonDumpPair(data[rel][k]) >> : k \in DOMAIN data[rel] } >> :
        rel \in DOMAIN data }
\* json.load of that text: arrays become lists, objects dicts
JsonLoadPair(text) ==
    LET comma == CHOOSE i \in 1..Len(text) : text[i] = ","
    IN  << ParseNat(SubSeq(text, 2, comma - 1)),
           ParseNat(SubSeq(text, comma + 1, Len(text) - 1)) >>
JsonLoadScores(text) ==
    [rel \in { m[1] : m \in text } |->
        LET cards == (CHOOSE m \in text : m[1] = rel)[2]
        IN  [k \in { n[1] : n \in cards } |->
                JsonLoadPair((CHOOSE n \in cards : n[1] = k)[2])]]

\* ScoreStore.__init__: the store as a new ScoreStore reads it from the file
ScoreStore_init(scores_file) ==
    IF scores_file = None THEN EmptyDict ELSE JsonLoadScores(scores_file[1])

\* _flush, were it to write nothing
ScoreStore_flush_omitted(st) == st

\* record_correct / record_incorrect of the ScoreStore, with its _flush
ScoreStore_flush(st) == [st EXCEPT !.scores_file = Some(JsonDumpScores(st.data))]
ScoreStore_record(st, deck_path, local_id, correct) ==
    ScoreStore_flush(
        [st EXCEPT !.data = IF correct
                            THEN ScoreStore_record_correct(st.data, deck_path, local_id)
                            ELSE ScoreStore_record_incorrect(st.data, deck_path, local_id)])

\* a file that open() or json.load() fails on holds, in place of a deck, the
\* exception they raise: PermissionError on a file that may not be read,
\* JSONDecodeError on text that is not JSON, UnicodeDecodeError on bytes that
\* are not UTF-8
FileErrors == { "PermissionError", "JSONDecodeError", "UnicodeDecodeError" }
Damaged(error) == [error |-> error]
IsDamaged(content) == "error" \in DOMAIN content

\* _load: the parsed file, or FileNotFoundError, or the exception of a
\* damaged file
DeckStorage_load(st, path) ==
    IF path \notin DOMAIN st.files THEN Result(st, None, "FileNotFoundError")
    ELSE IF IsDamaged(st.files[path]) THEN Result(st, None, st.files[path].error)
    ELSE Result(st, st.files[path], NoExc)

\* except (KeyError, OSError, json.JSONDecodeError): FileNotFoundError and
\* PermissionError are OSErrors
CaughtOnRead == { "KeyError", "OSError", "FileNotFoundError", "PermissionError",
                  "JSONDecodeError" }

DeckStorage_save(st, path, data) == [st EXCEPT !.files = DictPut(st.files, path, data)]

\* _safe_name: the characters illegal in file names removed, then strip(),
\* and "deck" when nothing is left
IllegalChars == { "<", ">", ":", "\"", "/", "\\", "|", "?", "*" }
DeckStorage_safe_name(name) ==
    LET kept == SelectIdx(name, { i \in 1..Len(name) : name[i] \notin IllegalChars }, 1)
        s == Strip(kept)
    IN  IF s = << >> THEN << "d", "e", "c", "k" >> ELSE s

\* _new_path: base.json, else base_2.json, base_3.json, ... the first free one
RECURSIVE DeckStorage_new_path_from(_, _, _, _)
DeckStorage_new_path_from(st, folder, base, n) ==
    LET path == PathJoin(folder, base \o << "_" >> \o Str(n) \o << ".json" >>)
    IN  IF path \in DOMAIN st.files
        THEN DeckStorage_new_path_from(st, folder, base, n + 1)
        ELSE path

\* _new_path, were it to take base.json whether or not the file exists
DeckStorage_new_path_unchecked(st, folder, name) ==
    PathJoin(folder, DeckStorage_safe_name(name) \o << ".json" >>)

DeckStorage_new_path(st, folder, name) ==
    LET base == DeckStorage_safe_name(name)
        path == PathJoin(folder, base \o << ".json" >>)
    IN  IF path \in DOMAIN st.files
        THEN DeckStorage_new_path_from(st, folder, base, 2)
        ELSE path

\* _get_sid, were it to hand out the lowest session id not in use
DeckStorage_get_sid_lowest_free(st, deck_path, local_id) ==
    LET key == << deck_path, local_id >>
        free == (1..st.next_sid) \ DOMAIN st.registry
        sid == CHOOSE s \in free : \A t \in free : s <= t
    IN  IF key \notin DOMAIN st.reverse
        THEN Result([st EXCEPT !.next_sid = st.next_sid + 1,
                               !.registry = DictPut(st.registry, sid, key),
                               !.reverse = DictPut(st.reverse, key, sid)],
                    sid, NoExc)
        ELSE Result(st, st.reverse[key], NoExc)

\* _get_sid: the session id of (deck_path, local_id), allocated on first use
DeckStorage_get_sid(st, deck_path, local_id) ==
    LET key == << deck_path, local_id >>
    IN  IF key \notin DOMAIN st.reverse
        THEN Result([st EXCEPT !.next_sid = st.next_sid + 1,
                               !.registry = DictPut(st.registry, st.next_sid, key),
                               !.reverse = DictPut(st.reverse, key, st.next_sid)],
                    st.next_sid, NoExc)
        ELSE Result(st, st.reverse[key], NoExc)

\* _resolve: registry[session_id], or KeyError
DeckStorage_resolve(st, session_id) ==
    IF session_id \in DOMAIN st.registry
    THEN Result(st, st.registry[session_id], NoExc)
    ELSE Result(st, None, "KeyError")

\* the card tuple's field indices (Python counts from 0)
C_ID == 0
C_FRONT == 1
C_BACK == 2
C_CORRECT == 3
C_INCORRECT == 4
C_TYPE == 5
C_CHOICES == 6
Field(tup, c) == tup[c + 1]

\* json.dumps / json.loads of a list of strings: the bracketed text and back
JsonDumps(list) == << "[" >> \o list \o << "]" >>
JsonLoads(text) == SubSeq(text, 2, Len(text) - 1)

\* Python's truth value of a choices field: None and [] are false
Truthy(opt) == opt # None /\ opt[1] # << >>

\* _seed_public_decks: the example deck, written when its file is missing
SeedTarget == PathJoin(PUBLIC_DIR, << "Fun Trivia Mix", ".json" >>)
SeedCard(id, front, back, card_type, choices) ==
    [id |-> id, front |-> front, back |-> back, card_type |-> card_type,
     choices |-> choices, tags |-> << >>]
SeedCards ==
    << SeedCard(1, "Which planet is closest to the Sun?", "Mercury", "mc",
                Some(<< "Venus", "Earth", "Mars" >>)),
       SeedCard(2, "What is the largest ocean on Earth?", "Pacific Ocean", "mc",
                Some(<< "Atlantic Ocean", "Indian Ocean", "Arctic Ocean" >>)),
       SeedCard(3, "How many sides does a pentagon have?", "5", "mc",
                Some(<< "4", "6", "8" >>)),
       SeedCard(4, "What is the most spoken language in the world by native speakers?",
                "Mandarin Chinese", "mc", Some(<< "English", "Spanish", "Hindi" >>)),
       SeedCard(5, "What is 15% of 200?", "30", "mc", Some(<< "25", "35", "45" >>)),
       SeedCard(6, "What year did World War II end?", "1945", "free", None),
       SeedCard(7, "What gas do plants absorb during photosynthesis?",
                "Carbon dioxide (CO2)", "free", None),
       SeedCard(8, "What is the square root of 64?", "8", "free", None) >>
SeedDeck == [name |-> << "Fun Trivia Mix" >>, tags |-> << >>, next_id |-> 9, cards |-> SeedCards]
DeckStorage_seed_public_decks(st) ==
    IF SeedTarget \in DOMAIN st.files THEN st
    ELSE DeckStorage_save(st, SeedTarget, SeedDeck)

\* create_deck
DeckStorage_create_deck(st, name, folder) ==
    LET path == DeckStorage_new_path(st, folder, name)
    IN  Result(DeckStorage_save(st, path,
                   [name |-> name, tags |-> << >>, next_id |-> 1, cards |-> << >>]),
               path, NoExc)

\* a delete_deck that drops the session ids but keeps the reverse entries
DeckStorage_delete_deck_keeping_reverse(st, deck_path) ==
    LET gone == { sid \in DOMAIN st.registry : st.registry[sid][1] = deck_path }
    IN  Result([st EXCEPT !.files = DictPop(st.files, deck_path),
                          !.registry = [sid \in (DOMAIN st.registry) \ gone |-> st.registry[sid]]],
               None, NoExc)

\* delete_deck, were it to drop the deck's scores from the ScoreStore too
DeckStorage_delete_deck_dropping_scores(st, deck_path) ==
    LET gone == { sid \in DOMAIN st.registry : st.registry[sid][1] = deck_path }
        keys == { st.registry[sid] : sid \in gone }
    IN  Result([st EXCEPT !.files = DictPop(st.files, deck_path),
                          !.data = DictPop(st.data, ScoreStore_rel(deck_path)),
                          !.registry = [sid \in (DOMAIN st.registry) \ gone |-> st.registry[sid]],
                          !.reverse = [k \in (DOMAIN st.reverse) \ keys |-> st.reverse[k]]],
               None, NoExc)

\* delete_deck: the file removed, and every registration of a card of the deck
DeckStorage_delete_deck(st, deck_path) ==
    LET gone == { sid \in DOMAIN st.registry : st.registry[sid][1] = deck_path }
        keys == { st.registry[sid] : sid \in gone }
    IN  Result([st EXCEPT !.files = DictPop(st.files, deck_path),
                          !.registry = [sid \in (DOMAIN st.registry) \ gone |-> st.registry[sid]],
                          !.reverse = [k \in (DOMAIN st.reverse) \ keys |-> st.reverse[k]]],
               None, NoExc)

\* _to_tuple, were it to leave the choices out of the tuple
DeckStorage_to_tuple_without_choices(st, deck_path, card) ==
    LET g == DeckStorage_get_sid(st, deck_path, card.id)
        score == ScoreStore_get(st.data, deck_path, card.id)
    IN  Result(g.st,
               << g.ret, card.front, card.back, score[1], score[2], card.card_type, None >>,
               NoExc)

\* _to_tuple: the card as a tuple, with its session id and its scores
DeckStorage_to_tuple(st, deck_path, card) ==
    LET g == DeckStorage_get_sid(st, deck_path, card.id)
        score == ScoreStore_get(st.data, deck_path, card.id)
        choices_json == IF Truthy(card.choices) THEN Some(JsonDumps(card.choices[1])) ELSE None
    IN  Result(g.st,
               << g.ret, card.front, card.back, score[1], score[2], card.card_type,
                  choices_json >>,
               NoExc)

\* _find: the index of the card with this local id, 0 when there is none
DeckStorage_find(data, local_id) ==
    LET hits == { i \in 1..Len(data.cards) : data.cards[i].id = local_id }
    IN  IF hits = {} THEN 0 ELSE CHOOSE i \in hits : \A j \in hits : i <= j

\* get_cards: the tuples of the deck's cards, from card i on
RECURSIVE DeckStorage_tuples_from(_, _, _, _)
DeckStorage_tuples_from(st, deck_path, cards, i) ==
    IF i > Len(cards) THEN Result(st, << >>, NoExc)
    ELSE LET t == DeckStorage_to_tuple(st, deck_path, cards[i])
             rest == DeckStorage_tuples_from(t.st, deck_path, cards, i + 1)
         IN  Result(rest.st, << t.ret >> \o rest.ret, NoExc)

DeckStorage_get_cards(st, deck_path) ==
    LET l == DeckStorage_load(st, deck_path)
    IN  IF l.exc # NoExc THEN l
        ELSE DeckStorage_tuples_from(st, deck_path, l.ret.cards, 1)

\* create_card, were it to leave next_id as it was
DeckStorage_create_card_keeping_next_id(st, deck_path, front, back, card_type, choices) ==
    LET l == DeckStorage_load(st, deck_path)
        data == l.ret
        local_id == data.next_id
        card == [id |-> local_id, front |-> front, back |-> back,
                 card_type |-> card_type, choices |-> choices, tags |-> << >>]
        saved == DeckStorage_save(st, deck_path,
                     [data EXCEPT !.cards = Append(data.cards, card)])
    IN  IF l.exc # NoExc THEN l
        ELSE DeckStorage_get_sid(saved, deck_path, local_id)

\* create_card, were it to open a ScoreStore entry for the new card
DeckStorage_create_card_with_entry(st, deck_path, front, back, card_type, choices) ==
    LET l == DeckStorage_load(st, deck_path)
        data == l.ret
        local_id == data.next_id
        card == [id |-> local_id, front |-> front, back |-> back,
                 card_type |-> card_type, choices |-> choices, tags |-> << >>]
        saved == DeckStorage_save(st, deck_path,
                     [data EXCEPT !.cards = Append(data.cards, card),
                                  !.next_id = local_id + 1])
        entered == [saved EXCEPT !.data = ScoreStore_setdefault(saved.data,
                                              ScoreStore_rel(deck_path), Str(local_id))]
    IN  IF l.exc # NoExc THEN l
        ELSE DeckStorage_get_sid(entered, deck_path, local_id)

\* create_card
DeckStorage_create_card(st, deck_path, front, back, card_type, choices) ==
    LET l == DeckStorage_load(st, deck_path)
        data == l.ret
        local_id == data.next_id
        card == [id |-> local_id, front |-> front, back |-> back,
                 card_type |-> card_type, choices |-> choices, tags |-> << >>]
        saved == DeckStorage_save(st, deck_path,
                     [data EXCEPT !.cards = Append(data.cards, card),
                                  !.next_id = local_id + 1])
    IN  IF l.exc # NoExc THEN l
        ELSE DeckStorage_get_sid(saved, deck_path, local_id)

\* update_card, were it to leave the card's choices as they were
DeckStorage_update_card_keeping_choices(st, session_id, front, back, card_type, choices) ==
    LET r == DeckStorage_resolve(st, session_id)
        deck_path == r.ret[1]
        local_id == r.ret[2]
        l == DeckStorage_load(st, deck_path)
        data == l.ret
        idx == DeckStorage_find(data, local_id)
        card == [data.cards[idx] EXCEPT !.front = front, !.back = back,
                                        !.card_type = card_type]
    IN  IF r.exc # NoExc THEN r
        ELSE IF l.exc # NoExc THEN l
        ELSE IF idx = 0 THEN Result(st, None, NoExc)
        ELSE Result(DeckStorage_save(st, deck_path, [data EXCEPT !.cards[idx] = card]),
                    None, NoExc)

\* update_card
DeckStorage_update_card(st, session_id, front, back, card_type, choices) ==
    LET r == DeckStorage_resolve(st, session_id)
        deck_path == r.ret[1]
        local_id == r.ret[2]
        l == DeckStorage_load(st, deck_path)
        data == l.ret
        idx == DeckStorage_find(data, local_id)
        card == [data.cards[idx] EXCEPT !.front = front, !.back = back,
                                        !.card_type = card_type, !.choices = choices]
    IN  IF r.exc # NoExc THEN r
        ELSE IF l.exc # NoExc THEN l
        ELSE IF idx = 0 THEN Result(st, None, NoExc)
        ELSE Result(DeckStorage_save(st, deck_path, [data EXCEPT !.cards[idx] = card]),
                    None, NoExc)

\* get_card_by_id: the card's tuple, or None; the exceptions of CaughtOnRead
\* are caught, any other goes to the caller
DeckStorage_get_card_by_id(st, session_id) ==
    LET r == DeckStorage_resolve(st, session_id)
        deck_path == r.ret[1]
        local_id == r.ret[2]
        l == DeckStorage_load(st, deck_path)
        idx == DeckStorage_find(l.ret, local_id)
    IN  IF r.exc # NoExc THEN Result(st, None, IF r.exc \in CaughtOnRead THEN NoExc ELSE r.exc)
        ELSE IF l.exc # NoExc
        THEN Result(st, None, IF l.exc \in CaughtOnRead THEN NoExc ELSE l.exc)
        ELSE IF idx = 0 THEN Result(st, None, NoExc)
        ELSE LET t == DeckStorage_to_tuple(st, deck_path, l.ret.cards[idx])
             IN  Result(t.st, Some(t.ret), NoExc)

\* delete_card, were it to remove the deck's first card
DeckStorage_delete_card_first(st, session_id) ==
    LET r == DeckStorage_resolve(st, session_id)
        deck_path == r.ret[1]
        local_id == r.ret[2]
        l == DeckStorage_load(st, deck_path)
        data == l.ret
        kept == SelectIdx(data.cards, 2..Len(data.cards), 1)
        saved == DeckStorage_save(st, deck_path, [data EXCEPT !.cards = kept])
    IN  IF r.exc # NoExc THEN r
        ELSE IF l.exc # NoExc THEN l
        ELSE Result([saved EXCEPT !.reverse = DictPop(saved.reverse, << deck_path, local_id >>),
                                  !.registry = DictPop(saved.registry, session_id)],
                    None, NoExc)

\* delete_card, were it to drop the session id from the registry only
DeckStorage_delete_card_keeping_reverse(st, session_id) ==
    LET r == DeckStorage_resolve(st, session_id)
        deck_path == r.ret[1]
        local_id == r.ret[2]
        l == DeckStorage_load(st, deck_path)
        data == l.ret
        kept == SelectIdx(data.cards,
                          { i \in 1..Len(data.cards) : data.cards[i].id # local_id }, 1)
        saved == DeckStorage_save(st, deck_path, [data EXCEPT !.cards = kept])
    IN  IF r.exc # NoExc THEN r
        ELSE IF l.exc # NoExc THEN l
        ELSE Result([saved EXCEPT !.registry = DictPop(saved.registry, session_id)],
                    None, NoExc)

\* delete_card
DeckStorage_delete_card(st, session_id) ==
    LET r == DeckStorage_resolve(st, session_id)
        deck_path == r.ret[1]
        local_id == r.ret[2]
        l == DeckStorage_load(st, deck_path)
        data == l.ret
        kept == SelectIdx(data.cards,
                          { i \in 1..Len(data.cards) : data.cards[i].id # local_id }, 1)
        saved == DeckStorage_save(st, deck_path, [data EXCEPT !.cards = kept])
    IN  IF r.exc # NoExc THEN r
        ELSE IF l.exc # NoExc THEN l
        ELSE Result([saved EXCEPT !.reverse = DictPop(saved.reverse, << deck_path, local_id >>),
                                  !.registry = DictPop(saved.registry, session_id)],
                    None, NoExc)

\* record_incorrect
DeckStorage_record_incorrect(st, session_id) ==
    LET r == DeckStorage_resolve(st, session_id)
    IN  IF r.exc # NoExc THEN r
        ELSE Result(ScoreStore_record(st, r.ret[1], r.ret[2], FALSE), None, NoExc)

\* record_correct, were it to record the answer twice
DeckStorage_record_correct_twice(st, session_id) ==
    LET r == DeckStorage_resolve(st, session_id)
        once == ScoreStore_record(st, r.ret[1], r.ret[2], TRUE)
    IN  IF r.exc # NoExc THEN r
        ELSE Result(ScoreStore_record(once, r.ret[1], r.ret[2], TRUE), None, NoExc)

\* record_correct
DeckStorage_record_correct(st, session_id) ==
    LET r == DeckStorage_resolve(st, session_id)
    IN  IF r.exc # NoExc THEN r
        ELSE Result(ScoreStore_record(st, r.ret[1], r.ret[2], TRUE), None, NoExc)

\* the tags as stored: each tag stripped and lowercased, empty tags dropped
NormalizeTags(tags) ==
    LET kept == SelectIdx(tags, { i \in 1..Len(tags) : Strip(tags[i]) # << >> }, 1)
    IN  [i \in 1..Len(kept) |-> Lower(Strip(kept[i]))]

\* get_card_tags: the card's tags, [] when the card cannot be read (it is
\* called on session ids whose deck file, if there is one, is not damaged)
DeckStorage_get_card_tags(st, session_id) ==
    LET r == DeckStorage_resolve(st, session_id)
        l == DeckStorage_load(st, r.ret[1])
        idx == DeckStorage_find(l.ret, r.ret[2])
    IN  IF r.exc # NoExc \/ l.exc # NoExc THEN << >>
        ELSE IF idx = 0 THEN << >>
        ELSE l.ret.cards[idx].tags

\* set_card_tags
DeckStorage_set_card_tags(st, session_id, tags) ==
    LET r == DeckStorage_resolve(st, session_id)
        deck_path == r.ret[1]
        local_id == r.ret[2]
        l == DeckStorage_load(st, deck_path)
        data == l.ret
        idx == DeckStorage_find(data, local_id)
    IN  IF r.exc # NoExc THEN r
        ELSE IF l.exc # NoExc THEN l
        ELSE IF idx = 0 THEN Result(st, None, NoExc)
        ELSE Result(DeckStorage_save(st, deck_path,
                        [data EXCEPT !.cards[idx].tags = NormalizeTags(tags)]),
                    None, NoExc)

\* rename_deck, were it to write the deck anew under the new name
DeckStorage_rename_deck_anew(st, deck_path, new_name) ==
    LET l == DeckStorage_load(st, deck_path)
    IN  IF l.exc # NoExc THEN l
        ELSE Result(DeckStorage_save(st, deck_path,
                        [name |-> new_name, tags |-> << >>, next_id |-> 1, cards |-> << >>]),
                    None, NoExc)

\* rename_deck: the name inside the file; the path stays
DeckStorage_rename_deck(st, deck_path, new_name) ==
    LET l == DeckStorage_load(st, deck_path)
    IN  IF l.exc # NoExc THEN l
        ELSE Result(DeckStorage_save(st, deck_path, [l.ret EXCEPT !.name = new_name]),
                    None, NoExc)

\* get_decks_in_folder: the paths of the folder's decks sorted by lowercased
\* name; os.listdir gives them in any order and the sort is stable, so
\* decks of equal name come in any order: the orders it may return
DeckStorage_get_decks_in_folder(st, folder) ==
    LET paths == { p \in DOMAIN st.files : p.folder = folder.folder }
        n == Cardinality(paths)
        key(p) == Lower(st.files[p].name)
    IN  { order \in [1..n -> paths] :
            /\ \A i, j \in 1..n : order[i] = order[j] => i = j
            /\ \A i, j \in 1..n : i < j => ~StrLess(key(order[j]), key(order[i])) }

\* _all_deck_paths: the public decks, then the private ones
DeckStorage_all_deck_paths(st) ==
    { pub \o priv : pub \in DeckStorage_get_decks_in_folder(st, PUBLIC_DIR),
                    priv \in DeckStorage_get_decks_in_folder(st, PRIVATE_DIR) }

\* the cards <<deck path, card>> that carry tag_name, deck by deck from paths[i] on
RECURSIVE DeckStorage_tagged_from(_, _, _, _)
DeckStorage_tagged_from(st, tag_name, paths, i) ==
    IF i > Len(paths) THEN << >>
    ELSE LET cards == st.files[paths[i]].cards
             hits == SelectIdx(cards,
                               { k \in 1..Len(cards) :
                                   \E t \in 1..Len(cards[k].tags) : cards[k].tags[t] = tag_name },
                               1)
         IN  [k \in 1..Len(hits) |-> << paths[i], hits[k] >>]
             \o DeckStorage_tagged_from(st, tag_name, paths, i + 1)

\* their tuples, from pair i on
RECURSIVE DeckStorage_tuples_of(_, _, _)
DeckStorage_tuples_of(st, pairs, i) ==
    IF i > Len(pairs) THEN Result(st, << >>, NoExc)
    ELSE LET t == DeckStorage_to_tuple(st, pairs[i][1], pairs[i][2])
             rest == DeckStorage_tuples_of(t.st, pairs, i + 1)
         IN  Result(rest.st, << t.ret >> \o rest.ret, NoExc)

\* get_cards_by_tag, the decks being scanned in the order paths
DeckStorage_get_cards_by_tag(st, tag_name, paths) ==
    DeckStorage_tuples_of(st, DeckStorage_tagged_from(st, tag_name, paths, 1), 1)

\* a get_cards_by_deck_tag that finds no deck: the tags of the decks ignored
DeckStorage_get_cards_by_deck_tag_ignored(st, tag_name, paths) ==
    Result(st, << >>, NoExc)

\* get_cards_by_deck_tag, the decks being scanned in the order paths: the
\* tuples of all cards of the decks whose own tags include tag_name, a deck
\* that cannot be read being skipped
DeckStorage_get_cards_by_deck_tag(st, tag_name, paths) ==
    LET tagged(i) == /\ DeckStorage_load(st, paths[i]).exc = NoExc
                     /\ \E t \in 1..Len(st.files[paths[i]].tags) :
                           st.files[paths[i]].tags[t] = tag_name
        RECURSIVE from(_)
        from(i) ==
            IF i > Len(paths) THEN << >>
            ELSE (IF tagged(i)
                  THEN [k \in 1..Len(st.files[paths[i]].cards) |->
                           << paths[i], st.files[paths[i]].cards[k] >>]
                  ELSE << >>) \o from(i + 1)
    IN  DeckStorage_tuples_of(st, from(1), 1)

\* set_deck_tags: the tags of the deck, normalized as a card's are
DeckStorage_set_deck_tags(st, deck_path, tags) ==
    LET l == DeckStorage_load(st, deck_path)
    IN  IF l.exc # NoExc THEN l
        ELSE Result(DeckStorage_save(st, deck_path,
                        [l.ret EXCEPT !.tags = NormalizeTags(tags)]),
                    None, NoExc)

\* card_counts.get(t, 0) and deck_counts.get(t, 0) once the loops of
\* get_all_tags_with_counts have run over the decks paths[i..]: one is added
\* for every entry t of a tag list, decks that cannot be read being skipped
RECURSIVE DeckStorage_tag_counts(_, _, _, _)
DeckStorage_tag_counts(st, t, paths, i) ==
    IF i > Len(paths) THEN [cards |-> 0, decks |-> 0]
    ELSE LET l == DeckStorage_load(st, paths[i])
             rest == DeckStorage_tag_counts(st, t, paths, i + 1)
             entries(tags) == Cardinality({ k \in 1..Len(tags) : tags[k] = t })
             RECURSIVE in_cards(_)
             in_cards(k) == IF k > Len(l.ret.cards) THEN 0
                            ELSE entries(l.ret.cards[k].tags) + in_cards(k + 1)
         IN  IF l.exc # NoExc THEN rest
             ELSE [cards |-> in_cards(1) + rest.cards,
                   decks |-> entries(l.ret.tags) + rest.decks]

\* get_all_tags_with_counts, the decks being scanned in the order paths:
\* <<tag, card count, deck count>> of every tag counted, sorted by tag
DeckStorage_get_all_tags_with_counts(st, paths) ==
    LET readable == { i \in 1..Len(paths) : DeckStorage_load(st, paths[i]).exc = NoExc }
        deck(i) == st.files[paths[i]]
        all_tags == UNION { { deck(i).tags[k] : k \in 1..Len(deck(i).tags) }
                            \cup UNION { { deck(i).cards[c].tags[k] :
                                             k \in 1..Len(deck(i).cards[c].tags) } :
                                         c \in 1..Len(deck(i).cards) } :
                            i \in readable }
        n == Cardinality(all_tags)
        sorted == CHOOSE order \in [1..n -> all_tags] :
                      \A i, j \in 1..n : i < j => StrLess(order[i], order[j])
        counts(t) == DeckStorage_tag_counts(st, t, paths, 1)
    IN  [i \in 1..n |-> << sorted[i], counts(sorted[i]).cards, counts(sorted[i]).decks >>]

(***************************************************************************)
(* The state: the deck files and the score file on disk, the ScoreStore    *)
(* and the registry in memory, the controller's study session, and what    *)
(* the last call returned.                                                 *)
(***************************************************************************)
VARIABLES
    files,                 \* deck path -> the deck stored in the file
    data,                  \* ScoreStore._data
    scores_file,           \* the content of .local/scores.json, None when missing
    registry,              \* DeckStorage._registry
    reverse,               \* DeckStorage._reverse
    next_sid,              \* DeckStorage._next_sid
    study_cards,           \* AppController._study_cards
    study_original_cards,  \* AppController._study_original_cards
    study_index,           \* AppController._study_index (counted from 0)
    study_showing_front,   \* AppController._study_showing_front
    study_scored,          \* AppController._study_scored
    study_title,           \* AppController._study_title
    study_order,           \* AppController._study_order
    ret,                   \* what the last call returned or raised
    calls,                 \* history: per key (deck path, local id), the numbers of
                           \* record_correct and record_incorrect calls made on it
    attempted,             \* history: the existing cards (path, local id) that
                           \* received a scoring event since they were created
    incs                   \* history: the ScoreStore increments the session made
                           \* since a card last became current

storage_vars == << files, data, scores_file, registry, reverse, next_sid >>
study_vars == << study_cards, study_original_cards, study_index, study_showing_front,
                 study_scored, study_title, study_order >>
history_vars == << calls, attempted, incs >>
vars == << storage_vars, study_vars, ret, history_vars >>

St == [files |-> files, data |-> data, scores_file |-> scores_file,
       registry |-> registry, reverse |-> reverse, next_sid |-> next_sid]

SetSt(st) ==
    /\ files' = st.files
    /\ data' = st.data
    /\ scores_file' = st.scores_file
    /\ registry' = st.registry
    /\ reverse' = st.reverse
    /\ next_sid' = st.next_sid
    /\ st.next_sid <= MaxSid + 1

\* what a call returned: None, a value, (True, value), (False, message), the
\* study state, the result of a multiple-choice answer, or an exception raised
RetNone == [kind |-> "None"]
RetValue(value) == [kind |-> "value", value |-> value]
RetOk(value) == [kind |-> "ok", value |-> value]
RetFail(message) == [kind |-> "fail", message |-> message]
RetRaise(exc) == [kind |-> "raise", exc |-> exc]
RetState(state) == [kind |-> "state", state |-> state]
RetMc(is_correct, correct_answer, state) ==
    [kind |-> "mc", is_correct |-> is_correct, correct_answer |-> correct_answer,
     state |-> state]

(***************************************************************************)
(* AppController helpers.                                                  *)
(***************************************************************************)
\* _tuple_to_card, were it to take the two counters in each other's place
AppController_tuple_to_card_counters_swapped(tup) ==
    [id |-> Field(tup, C_ID), front |-> Field(tup, C_FRONT), back |-> Field(tup, C_BACK),
     correct |-> Field(tup, C_INCORRECT), incorrect |-> Field(tup, C_CORRECT),
     type |-> Field(tup, C_TYPE),
     choices |-> IF Field(tup, C_CHOICES) # None
                 THEN JsonLoads(Field(tup, C_CHOICES)[1]) ELSE << >>,
     tags |-> None]

\* _tuple_to_card: the dict the view gets; tags is None until they are attached
AppController_tuple_to_card(tup) ==
    [id |-> Field(tup, C_ID), front |-> Field(tup, C_FRONT), back |-> Field(tup, C_BACK),
     correct |-> Field(tup, C_CORRECT), incorrect |-> Field(tup, C_INCORRECT),
     type |-> Field(tup, C_TYPE),
     choices |-> IF Field(tup, C_CHOICES) # None
                 THEN JsonLoads(Field(tup, C_CHOICES)[1]) ELSE << >>,
     tags |-> None]

\* build_study_cards_for_tags, the decks being scanned in the order paths:
\* for each tag the cards that carry it, then the cards of the decks that
\* carry it, a card whose session id was seen before being left out; the
\* cards with a title, or None with a message when there are none
AppController_build_study_cards_for_tags(st, tag_names, paths) ==
    LET RECURSIVE collect(_, _, _)
        \* acc is <<seen_ids, cards>>
        collect(acc, tuples, k) ==
            IF k > Len(tuples) THEN acc
            ELSE collect(IF Field(tuples[k], C_ID) \notin acc[1]
                         THEN << acc[1] \cup { Field(tuples[k], C_ID) },
                                 Append(acc[2], AppController_tuple_to_card(tuples[k])) >>
                         ELSE acc,
                         tuples, k + 1)
        RECURSIVE for_tags(_, _, _)
        for_tags(s, acc, i) ==
            IF i > Len(tag_names) THEN [st |-> s, cards |-> acc[2]]
            ELSE LET own == DeckStorage_get_cards_by_tag(s, tag_names[i], paths)
                     deck == DeckStorage_get_cards_by_deck_tag(own.st, tag_names[i], paths)
                 IN  for_tags(deck.st, collect(collect(acc, own.ret, 1), deck.ret, 1), i + 1)
        RECURSIVE joined(_, _)
        joined(i, quote) ==
            IF i > Len(tag_names) THEN << >>
            ELSE (IF i > 1 THEN << ", " >> ELSE << >>)
                 \o quote \o tag_names[i] \o quote \o joined(i + 1, quote)
        done == for_tags(st, << {}, << >> >>, 1)
    IN  IF done.cards = << >>
        THEN Result(done.st,
                    << None, << "No cards found for tag(s) " >> \o joined(1, << "'" >>)
                                 \o << "." >> >>,
                    NoExc)
        ELSE Result(done.st,
                    << Some(done.cards),
                       IF Len(tag_names) = 1 THEN << "Tag: " >> \o tag_names[1]
                                             ELSE << "Tags: " >> \o joined(1, << >>) >>,
                    NoExc)

\* get_study_state, of the given session fields
StudyState(cards, index, showing_front, scored, title, order) ==
    [title |-> title, card |-> cards[index + 1], index |-> index, total |-> Len(cards),
     showing_front |-> showing_front, scored |-> scored, order |-> order]

\* the history after a scoring call on a key reached the ScoreStore
ScoredKey(key, correct) ==
    LET old == IF key \in DOMAIN calls THEN calls[key] ELSE << 0, 0 >>
        on_disk == /\ key[1] \in DOMAIN files
                   /\ \E i \in 1..Len(files[key[1]].cards) :
                         files[key[1]].cards[i].id = key[2]
    IN  /\ calls' = DictPut(calls, key, IF correct THEN << old[1] + 1, old[2] >>
                                                   ELSE << old[1], old[2] + 1 >>)
        /\ attempted' = IF on_disk THEN attempted \cup { key } ELSE attempted
        /\ incs' = incs + 1

\* the same, the call having been made on session id sid
Scored(reg, sid, correct) == ScoredKey(reg[sid], correct)

\* the scoring calls made so far, and the model's bound on them
RECURSIVE SumCalls(_)
SumCalls(keys) ==
    IF keys = {} THEN 0
    ELSE LET k == CHOOSE x \in keys : TRUE
         IN  calls[k][1] + calls[k][2] + SumCalls(keys \ { k })
WithinScorings == SumCalls(DOMAIN calls) < MaxScorings
WithinRecords == SumCalls(DOMAIN calls) < MaxRecords

(***************************************************************************)
(* The arguments the caller passes.                                        *)
(***************************************************************************)
DeckNames == { << "G" >>, << " " >> }
\* the card forms submitted: <<front, back, card type, wrong choices, tags>>,
\* two valid ones and one for each validation failure
CardForms ==
    { << "Q", "A", "free", << >>, << >> >>,
      << "Q", "A", "mc", << "B" >>, << >> >>,
      << "", "A", "free", << >>, << >> >>,
      << "Q", "", "free", << >>, << >> >>,
      << "Q", "A", "mc", << >>, << >> >> }
Answers == { "Mercury", "Venus" }
OrderModes == { "Random", "Original", "Lowest-scored" }
\* the session ids the caller may hold: every id handed out so far
KnownSids == 1..(next_sid - 1)
PrivateDecks == { p \in DOMAIN files : p.folder = PRIVATE_DIR.folder }
\* the names given to rename_deck
RenameNames == { << "H" >>, << " " >> }
\* the cards given to DeckStorage.create_card: <<front, back, card type,
\* choices>>, a free card, a multiple-choice card, and one with choices []
StorageForms ==
    { << "Q", "A", "free", None >>,
      << "Q", "A", "mc", Some(<< "B" >>) >>,
      << "Q", "A", "mc", Some(<< >>) >> }
\* the names given to DeckStorage.create_deck: a plain one, one that differs
\* from it by a character _safe_name removes, one _safe_name leaves nothing of
NewDeckNames == { << "G" >>, << "G", "?" >>, << "?" >> }
\* the names that are empty once stripped: "", " " and "  "
BlankNames == { << >>, << " " >>, << " ", " " >> }
\* the card given to DeckStorage.update_card
UpdateForms == { << "Q2", "A2", "free", None >> }
\* the tags given to set_card_tags, and the tag looked for
TagLists == { << << "T", " " >>, << " " >> >> }
TagNames == { << "t" >> }
\* the tags given to set_card_tags and set_deck_tags when tags are counted,
\* and the tags selected for build_study_cards_for_tags: none, one, two that
\* differ, and two that are the same once normalized (and, not being
\* normalized, are the name of no stored tag)
CountedTagLists ==
    { << >>, << << "u" >> >>, << << "u" >>, << "t" >> >>, << << "T" >>, << "t", " " >> >> }
\* the keys the ScoreStore is called with: two cards of the example deck and
\* a card of a private deck
RecordKeys ==
    { << SeedTarget, 1 >>, << SeedTarget, 6 >>,
      << PathJoin(PRIVATE_DIR, << "G", ".json" >>), 1 >> }

(***************************************************************************)
(* Init: the controller constructed over a base directory that holds the   *)
(* example deck from an earlier run, in which the user deleted all its     *)
(* cards but those of one of the sets SeedKept, and no score file.         *)
(***************************************************************************)
SeedKept == { { 1 }, { 1, 6 }, { 1, 6, 7 } }
FilesAtStart(kept) ==
    DictPut(EmptyDict, SeedTarget, [SeedDeck EXCEPT !.cards = SelectIdx(SeedCards, kept, 1)])

Constructed(kept) ==
    /\ LET st == DeckStorage_seed_public_decks(
                     [files |-> FilesAtStart(kept), data |-> EmptyDict, scores_file |-> None,
                      registry |-> EmptyDict, reverse |-> EmptyDict, next_sid |-> 1])
       IN  /\ files = st.files
           /\ data = st.data
           /\ scores_file = st.scores_file
           /\ registry = st.registry
           /\ reverse = st.reverse
           /\ next_sid = st.next_sid
    /\ study_cards = << >>
    /\ study_original_cards = << >>
    /\ study_index = 0
    /\ study_showing_front = TRUE
    /\ study_scored = FALSE
    /\ study_title = << >>
    /\ study_order = "Random"
    /\ ret = RetNone
    /\ calls = EmptyDict
    /\ attempted = {}
    /\ incs = 0

Init == \E kept \in SeedKept : Constructed(kept)

\* the same, when the example deck was left with its first card only
InitStore == Constructed({ 1 })

\* the same, when it was left with a multiple-choice and a free card
InitStale == Constructed({ 1, 6 })

(***************************************************************************)
(* Deck and card operations of the controller.                             *)
(***************************************************************************)
create_deck(name) ==
    LET stripped == Strip(name)
        r == DeckStorage_create_deck(St, stripped, PRIVATE_DIR)
    IN  IF stripped = << >>
        THEN /\ ret' = RetFail("Deck name cannot be empty.")
             /\ UNCHANGED << storage_vars, study_vars, history_vars >>
        ELSE /\ Cardinality(PrivateDecks) < MaxDecks
             /\ SetSt(r.st)
             /\ ret' = RetOk(r.ret)
             /\ UNCHANGED << study_vars, history_vars >>

delete_deck(deck_path) ==
    LET r == DeckStorage_delete_deck(St, deck_path)
    IN  /\ SetSt(r.st)
        /\ ret' = RetNone
        /\ attempted' = { c \in attempted : c[1] # deck_path }
        /\ UNCHANGED << study_vars, calls, incs >>

delete_card(card_id) ==
    LET r == DeckStorage_delete_card(St, card_id)
    IN  IF r.exc # NoExc
        THEN /\ ret' = RetRaise(r.exc)
             /\ UNCHANGED << storage_vars, study_vars, history_vars >>
        ELSE /\ SetSt(r.st)
             /\ ret' = RetNone
             /\ attempted' = attempted \ { registry[card_id] }
             /\ UNCHANGED << study_vars, calls, incs >>

\* save_card, were it to take a multiple-choice card without wrong choices
save_card_any_choices(deck_path, card_id, front, back, card_type, wrong_choices, tags_str) ==
    LET choices == IF card_type = "mc" THEN Some(wrong_choices) ELSE None
        pieces == SplitComma(tags_str, << >>)
        kept == SelectIdx(pieces, { i \in 1..Len(pieces) : Strip(pieces[i]) # << >> }, 1)
        tags == [i \in 1..Len(kept) |-> Strip(kept[i])]
        u == DeckStorage_update_card(St, card_id[1], front, back, card_type, choices)
        ut == DeckStorage_set_card_tags(u.st, card_id[1], tags)
        c == DeckStorage_create_card(St, deck_path, front, back, card_type, choices)
        ct == DeckStorage_set_card_tags(c.st, c.ret, tags)
    IN  IF front = "" \/ back = ""
        THEN /\ ret' = RetFail("Front and answer are required.")
             /\ UNCHANGED << storage_vars, study_vars, history_vars >>
        ELSE IF card_id # None
        THEN IF u.exc # NoExc
             THEN /\ ret' = RetRaise(u.exc)
                  /\ UNCHANGED << storage_vars, study_vars, history_vars >>
             ELSE IF ut.exc # NoExc
             THEN /\ SetSt(u.st)
                  /\ ret' = RetRaise(ut.exc)
                  /\ UNCHANGED << study_vars, history_vars >>
             ELSE /\ SetSt(ut.st)
                  /\ ret' = RetOk(card_id[1])
                  /\ UNCHANGED << study_vars, history_vars >>
        ELSE IF c.exc # NoExc
             THEN /\ ret' = RetRaise(c.exc)
                  /\ UNCHANGED << storage_vars, study_vars, history_vars >>
             ELSE /\ files[deck_path].next_id <= MaxLocalId
                  /\ SetSt(ct.st)
                  /\ ret' = RetOk(c.ret)
                  /\ UNCHANGED << study_vars, history_vars >>

\* save_card: card_id is None to create a card in deck_path, Some(id) to edit one
save_card(deck_path, card_id, front, back, card_type, wrong_choices, tags_str) ==
    LET choices == IF card_type = "mc" THEN Some(wrong_choices) ELSE None
        pieces == SplitComma(tags_str, << >>)
        kept == SelectIdx(pieces, { i \in 1..Len(pieces) : Strip(pieces[i]) # << >> }, 1)
        tags == [i \in 1..Len(kept) |-> Strip(kept[i])]
        u == DeckStorage_update_card(St, card_id[1], front, back, card_type, choices)
        ut == DeckStorage_set_card_tags(u.st, card_id[1], tags)
        c == DeckStorage_create_card(St, deck_path, front, back, card_type, choices)
        ct == DeckStorage_set_card_tags(c.st, c.ret, tags)
    IN  IF front = "" \/ back = ""
        THEN /\ ret' = RetFail("Front and answer are required.")
             /\ UNCHANGED << storage_vars, study_vars, history_vars >>
        ELSE IF card_type = "mc" /\ wrong_choices = << >>
        THEN /\ ret' = RetFail("Add at least 1 wrong choice for multiple choice.")
             /\ UNCHANGED << storage_vars, study_vars, history_vars >>
        ELSE IF card_id # None
        THEN IF u.exc # NoExc
             THEN /\ ret' = RetRaise(u.exc)
                  /\ UNCHANGED << storage_vars, study_vars, history_vars >>
             ELSE IF ut.exc # NoExc
             THEN /\ SetSt(u.st)
                  /\ ret' = RetRaise(ut.exc)
                  /\ UNCHANGED << study_vars, history_vars >>
             ELSE /\ SetSt(ut.st)
                  /\ ret' = RetOk(card_id[1])
                  /\ UNCHANGED << study_vars, history_vars >>
        ELSE IF c.exc # NoExc
             THEN /\ ret' = RetRaise(c.exc)
                  /\ UNCHANGED << storage_vars, study_vars, history_vars >>
             ELSE /\ files[deck_path].next_id <= MaxLocalId
                  /\ SetSt(ct.st)
                  /\ ret' = RetOk(c.ret)
                  /\ UNCHANGED << study_vars, history_vars >>

(***************************************************************************)
(* The study session.                                                      *)
(***************************************************************************)
\* the tuples of a deck as card dicts
CardsOfTuples(tuples) == [i \in 1..Len(tuples) |-> AppController_tuple_to_card(tuples[i])]

\* start_study, were it to leave the index where it was
start_study_keeping_index(deck_path) ==
    LET g == DeckStorage_get_cards(St, deck_path)
        cards == CardsOfTuples(g.ret)
        title == << "Studying: " >> \o files[deck_path].name
    IN  IF g.exc # NoExc
        THEN /\ ret' = RetRaise(g.exc)
             /\ UNCHANGED << storage_vars, study_vars, history_vars >>
        ELSE IF g.ret = << >>
        THEN /\ SetSt(g.st)
             /\ ret' = RetFail("This deck has no cards to study.")
             /\ UNCHANGED << study_vars, history_vars >>
        ELSE /\ SetSt(g.st)
             /\ study_original_cards' = cards
             /\ study_cards' \in Shuffles(cards)
             /\ study_title' = title
             /\ study_index' = study_index
             /\ study_showing_front' = TRUE
             /\ study_scored' = FALSE
             /\ study_order' = "Random"
             /\ ret' = RetNone
             /\ incs' = 0
             /\ UNCHANGED << calls, attempted >>

\* get_study_deck_cards, then start_study with what it returned, as the
\* view's _study_deck does
start_study(deck_path) ==
    LET g == DeckStorage_get_cards(St, deck_path)
        cards == CardsOfTuples(g.ret)
        title == << "Studying: " >> \o files[deck_path].name
    IN  IF g.exc # NoExc
        THEN /\ ret' = RetRaise(g.exc)
             /\ UNCHANGED << storage_vars, study_vars, history_vars >>
        ELSE IF g.ret = << >>
        THEN /\ SetSt(g.st)
             /\ ret' = RetFail("This deck has no cards to study.")
             /\ UNCHANGED << study_vars, history_vars >>
        ELSE /\ SetSt(g.st)
             /\ study_original_cards' = cards
             /\ study_cards' \in Shuffles(cards)
             /\ study_title' = title
             /\ study_index' = 0
             /\ study_showing_front' = TRUE
             /\ study_scored' = FALSE
             /\ study_order' = "Random"
             /\ ret' = RetNone
             /\ incs' = 0
             /\ UNCHANGED << calls, attempted >>

\* self._study_cards[self._study_index] raises IndexError in an empty session
NoCurrentCard ==
    /\ study_cards = << >>
    /\ ret' = RetRaise("IndexError")
    /\ UNCHANGED << storage_vars, study_vars, history_vars >>

CurrentCard == study_cards[study_index + 1]

\* get_study_state of the session as the step leaves it, with these cards,
\* index, flip and scored fields
NewState(cards, index, showing_front, scored) ==
    StudyState(cards, index, showing_front, scored, study_title, study_order)

\* a flip that turns a card over whatever its type
flip_card_of_any_type ==
    \/ NoCurrentCard
    \/ /\ study_cards # << >>
       /\ study_showing_front' = IF study_showing_front THEN FALSE
                                                        ELSE study_showing_front
       /\ ret' = RetState(NewState(study_cards, study_index, study_showing_front',
                                   study_scored))
       /\ UNCHANGED << storage_vars, study_cards, study_original_cards, study_index,
                       study_scored, study_title, study_order, history_vars >>

\* a flip that toggles the side, so that a second flip shows the front again
flip_card_toggling ==
    \/ NoCurrentCard
    \/ /\ study_cards # << >>
       /\ IF CurrentCard.type = "mc"
          THEN /\ ret' = RetNone
               /\ UNCHANGED study_showing_front
          ELSE /\ study_showing_front' = ~study_showing_front
               /\ ret' = RetState(NewState(study_cards, study_index, study_showing_front',
                                           study_scored))
       /\ UNCHANGED << storage_vars, study_cards, study_original_cards, study_index,
                       study_scored, study_title, study_order, history_vars >>

flip_card ==
    \/ NoCurrentCard
    \/ /\ study_cards # << >>
       /\ IF CurrentCard.type = "mc"
          THEN /\ ret' = RetNone
               /\ UNCHANGED study_showing_front
          ELSE /\ study_showing_front' = IF study_showing_front THEN FALSE
                                                                  ELSE study_showing_front
               /\ ret' = RetState(NewState(study_cards, study_index, study_showing_front',
                                           study_scored))
       /\ UNCHANGED << storage_vars, study_cards, study_original_cards, study_index,
                       study_scored, study_title, study_order, history_vars >>

\* a bump that counts every answer as a correct one
CardBumped_always_correct(card, correct) ==
    [card EXCEPT !.correct = card.correct + 1]

\* a recording that leaves the scored flag as it was
SessionScored_unflagged(card, correct) ==
    /\ study_cards' = [study_cards EXCEPT ![study_index + 1] =
                           IF correct THEN [card EXCEPT !.correct = card.correct + 1]
                                      ELSE [card EXCEPT !.incorrect = card.incorrect + 1]]
    /\ UNCHANGED << study_original_cards, study_index, study_showing_front,
                    study_scored, study_title, study_order >>

\* the session after the current card was recorded: the card's in-memory
\* counter bumped and the scored flag set
CardBumped(card, correct) ==
    IF correct THEN [card EXCEPT !.correct = card.correct + 1]
               ELSE [card EXCEPT !.incorrect = card.incorrect + 1]

SessionScored(card, correct) ==
    /\ study_cards' = [study_cards EXCEPT ![study_index + 1] = CardBumped(card, correct)]
    /\ study_scored' = TRUE
    /\ UNCHANGED << study_original_cards, study_index, study_showing_front,
                    study_title, study_order >>

submit_mc_answer(chosen) ==
    IF study_scored
    THEN /\ ret' = RetNone
         /\ UNCHANGED << storage_vars, study_vars, history_vars >>
    ELSE \/ NoCurrentCard
         \/ /\ study_cards # << >>
            /\ LET card == CurrentCard
                   is_correct == (chosen = card.back)
                   r == IF is_correct THEN DeckStorage_record_correct(St, card.id)
                                      ELSE DeckStorage_record_incorrect(St, card.id)
               IN  IF r.exc # NoExc
                   THEN /\ ret' = RetRaise(r.exc)
                        /\ UNCHANGED << storage_vars, study_vars, history_vars >>
                   ELSE /\ WithinScorings
                        /\ SetSt(r.st)
                        /\ SessionScored(card, is_correct)
                        /\ ret' = RetMc(is_correct, CardBumped(card, is_correct).back,
                                        NewState(study_cards', study_index,
                                                 study_showing_front, TRUE))
                        /\ Scored(registry, card.id, is_correct)

mark_correct ==
    \/ NoCurrentCard
    \/ /\ study_cards # << >>
       /\ LET card == CurrentCard
              r == DeckStorage_record_correct(St, card.id)
          IN  IF r.exc # NoExc
              THEN /\ ret' = RetRaise(r.exc)
                   /\ UNCHANGED << storage_vars, study_vars, history_vars >>
              ELSE /\ WithinScorings
                   /\ SetSt(r.st)
                   /\ SessionScored(card, TRUE)
                   /\ ret' = RetState(NewState(study_cards', study_index,
                                               study_showing_front, TRUE))
                   /\ Scored(registry, card.id, TRUE)

mark_incorrect ==
    \/ NoCurrentCard
    \/ /\ study_cards # << >>
       /\ LET card == CurrentCard
              r == DeckStorage_record_incorrect(St, card.id)
          IN  IF r.exc # NoExc
              THEN /\ ret' = RetRaise(r.exc)
                   /\ UNCHANGED << storage_vars, study_vars, history_vars >>
              ELSE /\ WithinScorings
                   /\ SetSt(r.st)
                   /\ SessionScored(card, FALSE)
                   /\ ret' = RetState(NewState(study_cards', study_index,
                                               study_showing_front, TRUE))
                   /\ Scored(registry, card.id, FALSE)

\* the session after next_card or prev_card moved to index: front, unscored
Moved(index) ==
    /\ study_index' = index
    /\ study_showing_front' = TRUE
    /\ study_scored' = FALSE
    /\ ret' = RetState(NewState(study_cards, index, TRUE, FALSE))
    /\ incs' = 0
    /\ UNCHANGED << storage_vars, study_cards, study_original_cards,
                    study_title, study_order, calls, attempted >>

\* x % 0 raises ZeroDivisionError in an empty session
NoCards ==
    /\ study_cards = << >>
    /\ ret' = RetRaise("ZeroDivisionError")
    /\ UNCHANGED << storage_vars, study_vars, history_vars >>

\* a next_card that stops at the last card instead of wrapping
next_card_clamped ==
    \/ NoCards
    \/ /\ study_cards # << >>
       /\ Moved(IF study_index + 1 < Len(study_cards) THEN study_index + 1 ELSE study_index)

next_card ==
    \/ NoCards
    \/ /\ study_cards # << >>
       /\ Moved((study_index + 1) % Len(study_cards))

\* a prev_card that steps back without wrapping
prev_card_unwrapped ==
    \/ NoCards
    \/ /\ study_cards # << >>
       /\ study_index' = study_index - 1
       /\ study_showing_front' = TRUE
       /\ study_scored' = FALSE
       /\ ret' = RetNone
       /\ incs' = 0
       /\ UNCHANGED << storage_vars, study_cards, study_original_cards,
                       study_title, study_order, calls, attempted >>

prev_card ==
    \/ NoCards
    \/ /\ study_cards # << >>
       /\ Moved((study_index - 1) % Len(study_cards))

\* id_rank: the position of a card id in the snapshot taken by start_study
\* (the last one, were an id to occur twice)
IdRank(original, id) ==
    LET hits == { i \in 1..Len(original) : original[i].id = id }
    IN  CHOOSE i \in hits : \A j \in hits : j <= i

OriginalLess(a, b) ==
    IdRank(study_original_cards, a.id) < IdRank(study_original_cards, b.id)

\* score_key, were a card without attempts to count as ratio 0
ScoreKey_unattempted_zero(c) ==
    LET total == c.correct + c.incorrect
    IN  IF total > 0 THEN << c.correct, total >> ELSE << 0, 1 >>

\* score_key: correct / total as a fraction <<numerator, denominator>>, and
\* -1 for a card without attempts
ScoreKey(c) ==
    LET total == c.correct + c.incorrect
    IN  IF total > 0 THEN << c.correct, total >> ELSE << -1, 1 >>

ScoreLess(a, b) == ScoreKey(a)[1] * ScoreKey(b)[2] < ScoreKey(b)[1] * ScoreKey(a)[2]

\* the order of two cards under the key of a mode: "Original" compares
\* id_rank, any other mode score_key
KeyLess(mode, a, b) == IF mode = "Original" THEN OriginalLess(a, b) ELSE ScoreLess(a, b)

\* sorted(cards, key): Python's stable sort, by insertion from the left
RECURSIVE InsertSorted(_, _, _)
InsertSorted(sorted, x, mode) ==
    IF sorted = << >> THEN << x >>
    ELSE IF KeyLess(mode, x, Head(sorted)) THEN << x >> \o sorted
    ELSE << Head(sorted) >> \o InsertSorted(Tail(sorted), x, mode)

RECURSIVE StableSort(_, _, _)
StableSort(cards, n, mode) ==
    IF n = 0 THEN << >>
    ELSE InsertSorted(StableSort(cards, n - 1, mode), cards[n], mode)

\* a set_study_order whose "Original" leaves the working list as it is
OrderedCards_unsorted(mode) ==
    IF mode = "Original"
    THEN { study_cards }
    ELSE IF mode = "Random"
    THEN Shuffles(study_cards)
    ELSE { StableSort(study_cards, Len(study_cards), mode) }

\* the working list after set_study_order(mode): the lists it may be
OrderedCards(mode) ==
    IF mode = "Original"
    THEN { StableSort(study_cards, Len(study_cards), mode) }
    ELSE IF mode = "Random"
    THEN Shuffles(study_cards)
    ELSE { StableSort(study_cards, Len(study_cards), mode) }

\* set_study_order, were it to leave the scored flag as it was
set_study_order_keeping_scored(mode) ==
    /\ study_order' = mode
    /\ study_cards' \in OrderedCards(mode)
    /\ study_index' = 0
    /\ study_showing_front' = TRUE
    /\ study_scored' = study_scored
    /\ ret' = IF study_cards = << >>
              THEN RetRaise("IndexError")
              ELSE RetState(StudyState(study_cards', 0, TRUE, study_scored, study_title, mode))
    /\ incs' = 0
    /\ UNCHANGED << storage_vars, study_original_cards, study_title, calls, attempted >>

set_study_order(mode) ==
    /\ study_order' = mode
    /\ study_cards' \in OrderedCards(mode)
    /\ study_index' = 0
    /\ study_showing_front' = TRUE
    /\ study_scored' = FALSE
    /\ ret' = IF study_cards = << >>
              THEN RetRaise("IndexError")
              ELSE RetState(StudyState(study_cards', 0, TRUE, FALSE, study_title, mode))
    /\ incs' = 0
    /\ UNCHANGED << storage_vars, study_original_cards, study_title, calls, attempted >>

\* refresh_current_study_card, were it to reset the flags only
refresh_current_study_card_keeping_card ==
    \/ NoCurrentCard
    \/ /\ study_cards # << >>
       /\ LET card == CurrentCard
              g == DeckStorage_get_card_by_id(St, card.id)
              refreshed == [AppController_tuple_to_card(g.ret[1]) EXCEPT
                                !.tags = Some(DeckStorage_get_card_tags(g.st, card.id))]
              cards == study_cards
          IN  IF g.exc # NoExc
              THEN /\ ret' = RetRaise(g.exc)
                   /\ UNCHANGED << storage_vars, study_vars, history_vars >>
              ELSE /\ SetSt(g.st)
                   /\ study_cards' = cards
                   /\ study_showing_front' = TRUE
                   /\ study_scored' = FALSE
                   /\ ret' = RetState(NewState(cards, study_index, TRUE, FALSE))
                   /\ incs' = 0
                   /\ UNCHANGED << study_original_cards, study_index, study_title,
                                   study_order, calls, attempted >>

refresh_current_study_card ==
    \/ NoCurrentCard
    \/ /\ study_cards # << >>
       /\ LET card == CurrentCard
              g == DeckStorage_get_card_by_id(St, card.id)
              refreshed == [AppController_tuple_to_card(g.ret[1]) EXCEPT
                                !.tags = Some(DeckStorage_get_card_tags(g.st, card.id))]
              cards == IF g.ret # None
                       THEN [study_cards EXCEPT ![study_index + 1] = refreshed]
                       ELSE study_cards
          IN  IF g.exc # NoExc
              THEN /\ ret' = RetRaise(g.exc)
                   /\ UNCHANGED << storage_vars, study_vars, history_vars >>
              ELSE /\ SetSt(g.st)
                   /\ study_cards' = cards
                   /\ study_showing_front' = TRUE
                   /\ study_scored' = FALSE
                   /\ ret' = RetState(NewState(cards, study_index, TRUE, FALSE))
                   /\ incs' = 0
                   /\ UNCHANGED << study_original_cards, study_index, study_title,
                                   study_order, calls, attempted >>

(***************************************************************************)
(* Calls on the storage layer that leave the session alone.                *)
(***************************************************************************)
\* get_deck_cards: the cards of a deck with their tags, as the deck view lists them
get_deck_cards(deck_path) ==
    LET g == DeckStorage_get_cards(St, deck_path)
        result == [i \in 1..Len(g.ret) |->
                      [AppController_tuple_to_card(g.ret[i]) EXCEPT
                          !.tags = Some(DeckStorage_get_card_tags(g.st, Field(g.ret[i], C_ID)))]]
    IN  IF g.exc # NoExc
        THEN /\ ret' = RetRaise(g.exc)
             /\ UNCHANGED << storage_vars, study_vars, history_vars >>
        ELSE /\ SetSt(g.st)
             /\ ret' = RetValue(result)
             /\ UNCHANGED << study_vars, history_vars >>

\* DeckStorage.record_correct on a session id
record_correct(session_id) ==
    LET r == DeckStorage_record_correct(St, session_id)
    IN  IF r.exc # NoExc
        THEN /\ ret' = RetRaise(r.exc)
             /\ UNCHANGED << storage_vars, study_vars, history_vars >>
        ELSE /\ WithinScorings
             /\ SetSt(r.st)
             /\ ret' = RetNone
             /\ Scored(registry, session_id, TRUE)
             /\ UNCHANGED study_vars

\* DeckStorage.record_incorrect on a session id
record_incorrect(session_id) ==
    LET r == DeckStorage_record_incorrect(St, session_id)
    IN  IF r.exc # NoExc
        THEN /\ ret' = RetRaise(r.exc)
             /\ UNCHANGED << storage_vars, study_vars, history_vars >>
        ELSE /\ WithinScorings
             /\ SetSt(r.st)
             /\ ret' = RetNone
             /\ Scored(registry, session_id, FALSE)
             /\ UNCHANGED study_vars

\* AppController.rename_deck
rename_deck(deck_path, new_name) ==
    LET stripped == Strip(new_name)
        r == DeckStorage_rename_deck(St, deck_path, stripped)
    IN  IF stripped = << >>
        THEN /\ ret' = RetFail("Name cannot be empty.")
             /\ UNCHANGED << storage_vars, study_vars, history_vars >>
        ELSE IF r.exc # NoExc
        THEN /\ ret' = RetRaise(r.exc)
             /\ UNCHANGED << storage_vars, study_vars, history_vars >>
        ELSE /\ SetSt(r.st)
             /\ ret' = RetOk(None)
             /\ UNCHANGED << study_vars, history_vars >>

\* DeckStorage.create_card
create_card(deck_path, front, back, card_type, choices) ==
    LET c == DeckStorage_create_card(St, deck_path, front, back, card_type, choices)
    IN  IF c.exc # NoExc
        THEN /\ ret' = RetRaise(c.exc)
             /\ UNCHANGED << storage_vars, study_vars, history_vars >>
        ELSE /\ files[deck_path].next_id <= MaxNextId
             /\ SetSt(c.st)
             /\ ret' = RetValue(c.ret)
             /\ UNCHANGED << study_vars, history_vars >>

\* DeckStorage.update_card
update_card(session_id, front, back, card_type, choices) ==
    LET u == DeckStorage_update_card(St, session_id, front, back, card_type, choices)
    IN  IF u.exc # NoExc
        THEN /\ ret' = RetRaise(u.exc)
             /\ UNCHANGED << storage_vars, study_vars, history_vars >>
        ELSE /\ SetSt(u.st)
             /\ ret' = RetNone
             /\ UNCHANGED << study_vars, history_vars >>

\* DeckStorage.set_card_tags
set_card_tags(session_id, tags) ==
    LET u == DeckStorage_set_card_tags(St, session_id, tags)
    IN  IF u.exc # NoExc
        THEN /\ ret' = RetRaise(u.exc)
             /\ UNCHANGED << storage_vars, study_vars, history_vars >>
        ELSE /\ SetSt(u.st)
             /\ ret' = RetNone
             /\ UNCHANGED << study_vars, history_vars >>

\* DeckStorage.get_card_by_id
get_card_by_id(session_id) ==
    LET g == DeckStorage_get_card_by_id(St, session_id)
    IN  IF g.exc # NoExc
        THEN /\ ret' = RetRaise(g.exc)
             /\ UNCHANGED << storage_vars, study_vars, history_vars >>
        ELSE /\ SetSt(g.st)
             /\ ret' = RetValue(g.ret)
             /\ UNCHANGED << study_vars, history_vars >>

\* outside the program: a deck file is overwritten with something open() or
\* json.load() fails on
file_damaged(deck_path, error) ==
    /\ files' = DictPut(files, deck_path, Damaged(error))
    /\ UNCHANGED << data, scores_file, registry, reverse, next_sid, study_vars, ret,
                    history_vars >>

\* outside the program: a deck file is removed
file_removed(deck_path) ==
    /\ files' = DictPop(files, deck_path)
    /\ UNCHANGED << data, scores_file, registry, reverse, next_sid, study_vars, ret,
                    history_vars >>

\* DeckStorage.get_cards_by_tag
get_cards_by_tag(tag_name) ==
    \E paths \in DeckStorage_all_deck_paths(St) :
        LET g == DeckStorage_get_cards_by_tag(St, tag_name, paths)
        IN  /\ SetSt(g.st)
            /\ ret' = RetValue(g.ret)
            /\ UNCHANGED << study_vars, history_vars >>

\* DeckStorage.set_deck_tags
set_deck_tags(deck_path, tags) ==
    LET u == DeckStorage_set_deck_tags(St, deck_path, tags)
    IN  IF u.exc # NoExc
        THEN /\ ret' = RetRaise(u.exc)
             /\ UNCHANGED << storage_vars, study_vars, history_vars >>
        ELSE /\ SetSt(u.st)
             /\ ret' = RetNone
             /\ UNCHANGED << study_vars, history_vars >>

\* DeckStorage.get_all_tags_with_counts
get_all_tags_with_counts ==
    \E paths \in DeckStorage_all_deck_paths(St) :
        /\ ret' = RetValue(DeckStorage_get_all_tags_with_counts(St, paths))
        /\ UNCHANGED << storage_vars, study_vars, history_vars >>

\* AppController.build_study_cards_for_tags
build_study_cards_for_tags(tag_names) ==
    \E paths \in DeckStorage_all_deck_paths(St) :
        LET b == AppController_build_study_cards_for_tags(St, tag_names, paths)
        IN  /\ SetSt(b.st)
            /\ ret' = IF b.ret[1] = None
                      THEN RetFail(b.ret[2])
                      ELSE RetOk([cards |-> b.ret[1][1], title |-> b.ret[2]])
            /\ UNCHANGED << study_vars, history_vars >>

\* self.scores.record_correct(deck_path, local_id)
scores_record_correct(deck_path, local_id) ==
    /\ WithinRecords
    /\ SetSt(ScoreStore_record(St, deck_path, local_id, TRUE))
    /\ ret' = RetNone
    /\ ScoredKey(<< deck_path, local_id >>, TRUE)
    /\ UNCHANGED study_vars

\* self.scores.record_incorrect(deck_path, local_id)
scores_record_incorrect(deck_path, local_id) ==
    /\ WithinRecords
    /\ SetSt(ScoreStore_record(St, deck_path, local_id, FALSE))
    /\ ret' = RetNone
    /\ ScoredKey(<< deck_path, local_id >>, FALSE)
    /\ UNCHANGED study_vars

\* self.db.create_deck(name, folder), as AppController.create_deck calls it
storage_create_deck(name, folder) ==
    LET r == DeckStorage_create_deck(St, name, folder)
    IN  /\ Cardinality(DOMAIN files) < MaxFiles
        /\ SetSt(r.st)
        /\ ret' = RetValue(r.ret)
        /\ UNCHANGED << study_vars, history_vars >>

\* the program is started again: a new ScoreStore reads the score file
scores_reopened ==
    /\ data' = ScoreStore_init(scores_file)
    /\ UNCHANGED << files, scores_file, registry, reverse, next_sid, study_vars, ret,
                    history_vars >>

\* self.scores.get(deck_path, local_id)
scores_get(deck_path, local_id) ==
    /\ ret' = RetValue(ScoreStore_get(data, deck_path, local_id))
    /\ UNCHANGED << storage_vars, study_vars, history_vars >>

(***************************************************************************)
(* Spec: the study session over the decks on disk: any session method, at  *)
(* any time, with any argument.                                            *)
(***************************************************************************)
Next ==
    \/ \E deck_path \in DOMAIN files : start_study(deck_path)
    \/ flip_card
    \/ \E chosen \in Answers : submit_mc_answer(chosen)
    \/ mark_correct
    \/ mark_incorrect
    \/ next_card
    \/ prev_card
    \/ \E mode \in OrderModes : set_study_order(mode)
    \/ refresh_current_study_card

Spec == Init /\ [][Next]_vars

(***************************************************************************)
(* SpecStore: the deck and card operations and the scoring calls of the    *)
(* storage layer, without a session, from InitStore.                       *)
(***************************************************************************)
NextStore ==
    \/ \E name \in DeckNames : create_deck(name)
    \/ \E deck_path \in DOMAIN files : delete_deck(deck_path)
    \/ \E card_id \in KnownSids : delete_card(card_id)
    \/ \E deck_path \in DOMAIN files, f \in CardForms :
          save_card(deck_path, None, f[1], f[2], f[3], f[4], f[5])
    \/ \E deck_path \in DOMAIN files : get_deck_cards(deck_path)
    \/ \E session_id \in KnownSids : record_correct(session_id)
    \/ \E session_id \in KnownSids : record_incorrect(session_id)

SpecStore == InitStore /\ [][NextStore]_vars

(***************************************************************************)
(* SpecScore: the ScoreStore called on its own and opened again from its   *)
(* file, from InitStore.                                                   *)
(***************************************************************************)
NextScore ==
    \/ \E key \in RecordKeys : scores_record_correct(key[1], key[2])
    \/ \E key \in RecordKeys : scores_record_incorrect(key[1], key[2])
    \/ \E key \in RecordKeys : scores_get(key[1], key[2])
    \/ scores_reopened

SpecScore == InitStore /\ [][NextScore]_vars

(***************************************************************************)
(* SpecCards: the deck and card operations of the controller and of the    *)
(* storage layer, without scoring and without a session, from InitStore.   *)
(***************************************************************************)
NextCards ==
    \/ \E name \in DeckNames : create_deck(name)
    \/ \E deck_path \in DOMAIN files, new_name \in RenameNames :
          rename_deck(deck_path, new_name)
    \/ \E deck_path \in DOMAIN files : delete_deck(deck_path)
    \/ \E card_id \in KnownSids : delete_card(card_id)
    \/ \E deck_path \in DOMAIN files, f \in CardForms :
          save_card(deck_path, None, f[1], f[2], f[3], f[4], f[5])
    \/ \E deck_path \in DOMAIN files, f \in StorageForms :
          create_card(deck_path, f[1], f[2], f[3], f[4])
    \/ \E session_id \in KnownSids, f \in UpdateForms :
          update_card(session_id, f[1], f[2], f[3], f[4])
    \/ \E session_id \in KnownSids, tags \in TagLists : set_card_tags(session_id, tags)
    \/ \E deck_path \in DOMAIN files : get_deck_cards(deck_path)
    \/ \E session_id \in 1..next_sid : get_card_by_id(session_id)
    \/ \E tag_name \in TagNames : get_cards_by_tag(tag_name)

SpecCards == InitStore /\ [][NextCards]_vars

(***************************************************************************)
(* SpecRegistry: the storage operations that allocate, look up and drop    *)
(* session ids, on free cards, from InitStore.                             *)
(***************************************************************************)
NextRegistry ==
    \/ create_deck(<< "G" >>)
    \/ \E deck_path \in DOMAIN files : delete_deck(deck_path)
    \/ \E card_id \in KnownSids : delete_card(card_id)
    \/ \E deck_path \in DOMAIN files : create_card(deck_path, "Q", "A", "free", None)
    \/ \E session_id \in KnownSids, tags \in TagLists : set_card_tags(session_id, tags)
    \/ \E deck_path \in DOMAIN files : get_deck_cards(deck_path)
    \/ \E session_id \in 1..next_sid : get_card_by_id(session_id)
    \/ \E tag_name \in TagNames : get_cards_by_tag(tag_name)

SpecRegistry == InitStore /\ [][NextRegistry]_vars

(***************************************************************************)
(* SpecForms: cards of every form created by the storage, looked up,       *)
(* listed and deleted, from InitStore.                                     *)
(***************************************************************************)
NextForms ==
    \/ create_deck(<< "G" >>)
    \/ \E deck_path \in DOMAIN files, f \in StorageForms :
          create_card(deck_path, f[1], f[2], f[3], f[4])
    \/ \E card_id \in KnownSids : delete_card(card_id)
    \/ \E deck_path \in DOMAIN files : get_deck_cards(deck_path)
    \/ \E session_id \in 1..next_sid : get_card_by_id(session_id)

SpecForms == InitStore /\ [][NextForms]_vars

(***************************************************************************)
(* SpecInput: the controller's operations that validate what the user      *)
(* typed, with valid and invalid input, next to the listing of a deck's    *)
(* cards, from InitStore.                                                  *)
(***************************************************************************)
NextInput ==
    \/ \E name \in DeckNames \cup BlankNames : create_deck(name)
    \/ \E deck_path \in DOMAIN files, new_name \in RenameNames \cup BlankNames :
          rename_deck(deck_path, new_name)
    \/ \E deck_path \in DOMAIN files, f \in CardForms :
          save_card(deck_path, None, f[1], f[2], f[3], f[4], f[5])
    \/ \E card_id \in KnownSids, f \in CardForms :
          save_card(None, Some(card_id), f[1], f[2], f[3], f[4], f[5])
    \/ \E deck_path \in DOMAIN files : get_deck_cards(deck_path)

SpecInput == InitStore /\ [][NextInput]_vars

(***************************************************************************)
(* SpecOrder: a study session in which free cards are flipped and marked   *)
(* and the working list is reordered, from Init.                           *)
(***************************************************************************)
NextOrder ==
    \/ \E deck_path \in DOMAIN files : start_study(deck_path)
    \/ flip_card
    \/ mark_correct
    \/ mark_incorrect
    \/ next_card
    \/ \E mode \in OrderModes : set_study_order(mode)

SpecOrder == Init /\ [][NextOrder]_vars

(***************************************************************************)
(* SpecRename: decks renamed while they hold cards with session ids, tags  *)
(* and scores, over the example deck left with two cards.                  *)
(***************************************************************************)
NextRename ==
    \/ create_deck(<< "G" >>)
    \/ \E deck_path \in DOMAIN files, new_name \in RenameNames :
          rename_deck(deck_path, new_name)
    \/ \E session_id \in KnownSids, tags \in TagLists : set_card_tags(session_id, tags)
    \/ \E deck_path \in DOMAIN files : get_deck_cards(deck_path)
    \/ \E session_id \in KnownSids : record_correct(session_id)

SpecRename == InitStale /\ [][NextRename]_vars

(***************************************************************************)
(* SpecDecks: decks created under names that collide, given cards and      *)
(* deleted, from InitStore.                                                *)
(***************************************************************************)
NextDecks ==
    \/ \E name \in NewDeckNames : storage_create_deck(name, PRIVATE_DIR)
    \/ \E deck_path \in DOMAIN files : delete_deck(deck_path)
    \/ \E deck_path \in DOMAIN files : create_card(deck_path, "Q", "A", "free", None)

SpecDecks == InitStore /\ [][NextDecks]_vars

(***************************************************************************)
(* SpecRefresh: a study session during which cards are edited and deleted  *)
(* in the storage and the current card is refreshed, over the example deck *)
(* left with a multiple-choice and a free card.                            *)
(***************************************************************************)
NextRefresh ==
    \/ \E deck_path \in DOMAIN files : start_study(deck_path)
    \/ next_card
    \/ mark_correct
    \/ \E session_id \in KnownSids, f \in UpdateForms :
          update_card(session_id, f[1], f[2], f[3], f[4])
    \/ \E card_id \in KnownSids : delete_card(card_id)
    \/ refresh_current_study_card

SpecRefresh == InitStale /\ [][NextRefresh]_vars

(***************************************************************************)
(* SpecTags: tags set on the cards and the decks, the tags counted and the *)
(* cards of selected tags collected, over the example deck left with two   *)
(* cards and a private deck.                                               *)
(***************************************************************************)
NextTags ==
    \/ create_deck(<< "G" >>)
    \/ \E session_id \in KnownSids, tags \in CountedTagLists :
          set_card_tags(session_id, tags)
    \/ \E deck_path \in DOMAIN files, tags \in CountedTagLists :
          set_deck_tags(deck_path, tags)
    \/ \E deck_path \in DOMAIN files : get_deck_cards(deck_path)
    \/ get_all_tags_with_counts
    \/ \E tag_names \in CountedTagLists : build_study_cards_for_tags(tag_names)

SpecTags == InitStale /\ [][NextTags]_vars

(***************************************************************************)
(* SpecLife: a study session with its navigation and scoring, while decks  *)
(* are created, renamed and deleted and cards edited, tagged and deleted,  *)
(* over the example deck left with its first card.                         *)
(***************************************************************************)
NextLife ==
    \/ \E deck_path \in DOMAIN files : start_study(deck_path)
    \/ next_card
    \/ prev_card
    \/ \E mode \in OrderModes : set_study_order(mode)
    \/ refresh_current_study_card
    \/ mark_correct
    \/ create_deck(<< "G" >>)
    \/ rename_deck(SeedTarget, << "H" >>)
    \/ \E deck_path \in DOMAIN files : delete_deck(deck_path)
    \/ \E session_id \in KnownSids, f \in UpdateForms :
          update_card(session_id, f[1], f[2], f[3], f[4])
    \/ \E session_id \in KnownSids, tags \in TagLists : set_card_tags(session_id, tags)
    \/ \E card_id \in KnownSids : delete_card(card_id)

SpecLife == InitStore /\ [][NextLife]_vars

(***************************************************************************)
(* SpecSession: every method of the study session, at any time, over the   *)
(* example deck left with a multiple-choice and a free card.               *)
(***************************************************************************)
NextSession ==
    \/ \E deck_path \in DOMAIN files : start_study(deck_path)
    \/ flip_card
    \/ submit_mc_answer("Mercury")
    \/ mark_correct
    \/ mark_incorrect
    \/ next_card
    \/ prev_card
    \/ \E mode \in OrderModes : set_study_order(mode)
    \/ refresh_current_study_card

SpecSession == InitStale /\ [][NextSession]_vars

(***************************************************************************)
(* SpecFrame: the scoring calls of the session and of the storage among    *)
(* the deck and card operations, over the example deck left with its first *)
(* card: the deck is studied, renamed, tagged and deleted and its card     *)
(* scored, edited, tagged and deleted, while a private deck is created and *)
(* given its first card.                                                   *)
(***************************************************************************)
NextFrame ==
    \/ start_study(SeedTarget)
    \/ submit_mc_answer("Mercury")
    \/ mark_correct
    \/ mark_incorrect
    \/ record_correct(1)
    \/ record_incorrect(1)
    \/ create_deck(<< "G" >>)
    \/ rename_deck(SeedTarget, << "H" >>)
    \/ delete_deck(SeedTarget)
    \/ \E deck_path \in { p \in PrivateDecks : files[p].next_id = 1 } :
          create_card(deck_path, "Q", "A", "free", None)
    \/ \E f \in UpdateForms : update_card(1, f[1], f[2], f[3], f[4])
    \/ \E tags \in TagLists : set_card_tags(1, tags)
    \/ \E tags \in TagLists : set_deck_tags(SeedTarget, tags)
    \/ delete_card(1)

SpecFrame == InitStore /\ [][NextFrame]_vars

(***************************************************************************)
(* SpecFiles: cards looked up while deck files are damaged or removed      *)
(* outside the program, and decks and cards deleted by it, over the        *)
(* example deck left with two cards.                                       *)
(***************************************************************************)
NextFiles ==
    \/ \E deck_path \in DOMAIN files : get_deck_cards(deck_path)
    \/ \E session_id \in 1..next_sid : get_card_by_id(session_id)
    \/ \E card_id \in KnownSids : delete_card(card_id)
    \/ \E deck_path \in DOMAIN files : delete_deck(deck_path)
    \/ \E deck_path \in DOMAIN files, error \in FileErrors : file_damaged(deck_path, error)
    \/ \E deck_path \in DOMAIN files : file_removed(deck_path)

SpecFiles == InitStale /\ [][NextFiles]_vars

(***************************************************************************)
(* SpecStale: a study session during which cards and decks are deleted,    *)
(* over the example deck left with a multiple-choice and a free card.      *)
(***************************************************************************)
NextStale ==
    \/ \E deck_path \in DOMAIN files : start_study(deck_path)
    \/ \E chosen \in Answers : submit_mc_answer(chosen)
    \/ mark_correct
    \/ mark_incorrect
    \/ next_card
    \/ \E card_id \in KnownSids : delete_card(card_id)
    \/ \E deck_path \in DOMAIN files : delete_deck(deck_path)

SpecStale == InitStale /\ [][NextStale]_vars

(***************************************************************************)
(* Properties.                                                             *)
(***************************************************************************)
\* the keys (deck path, local id) looked at: the cards on disk, every local
\* id a deck has handed out or hands out next, and every key ever recorded
ScoreKeys ==
    UNION { { << p, lid >> : lid \in 1..files[p].next_id } : p \in DOMAIN files }
    \cup DOMAIN calls
\* ScoreStore.get of a key
TallyOf(d, key) == ScoreStore_get(d, key[1], key[2])
\* one more correct answer, one more incorrect answer
PlusCorrect(t) == << t[1] + 1, t[2] >>
PlusIncorrect(t) == << t[1], t[2] + 1 >>
\* the ids of a card list, in order
Ids(cards) == [i \in 1..Len(cards) |-> cards[i].id]
\* the session has a current card, of this type
CurrentIs(card_type) == study_cards # << >> /\ CurrentCard.type = card_type
\* get_study_state of the session as it is
Snapshot ==
    StudyState(study_cards, study_index, study_showing_front, study_scored,
               study_title, study_order)

\* C1: between two consecutive events that make a card current and unscored
\* (start_study, next, prev, set_order, refresh) at most one ScoreStore
\* increment is recorded, whatever scoring calls are made in between.
C1_AtMostOneIncrement == incs <= 1

\* C2: submit_mc_answer called twice on the current multiple-choice card
\* records exactly one increment: the call on the unscored card records one
\* increment on one key and sets scored, and the call on the scored card
\* returns None and changes neither the ScoreStore nor the session.
C2_SubmitTwiceRecordsOnce ==
    [][\A chosen \in Answers :
          (CurrentIs("mc") /\ submit_mc_answer(chosen)) =>
              IF study_scored
              THEN /\ ret' = RetNone
                   /\ UNCHANGED << storage_vars, study_vars, history_vars >>
              ELSE /\ study_scored'
                   /\ incs' = incs + 1
                   /\ \E key \in ScoreKeys :
                         /\ TallyOf(data', key) \in { PlusCorrect(TallyOf(data, key)),
                                                      PlusIncorrect(TallyOf(data, key)) }
                         /\ \A other \in ScoreKeys \ { key } :
                               TallyOf(data', other) = TallyOf(data, other)]_vars
\* a scored multiple-choice card with its one increment, the last call
\* having returned None
C2_Witness ==
    /\ CurrentIs("mc")
    /\ study_scored
    /\ incs = 1
    /\ ret = RetNone
    /\ TallyOf(data, registry[CurrentCard.id]) \in { << 1, 0 >>, << 0, 1 >> }

\* C3: for every key, ScoreStore.get returns (number of record_correct calls
\* on the key, number of record_incorrect calls on the key), whatever the
\* interleaving of the calls and of the calls on other keys.
C3_TalliesEqualCallCounts ==
    \A key \in ScoreKeys :
        TallyOf(data, key) = IF key \in DOMAIN calls THEN calls[key] ELSE << 0, 0 >>
\* one key has had calls of both kinds, and another key a call in between
C3_Witness ==
    \E key \in DOMAIN calls, other \in DOMAIN calls :
        /\ key # other
        /\ calls[key] = << 2, 1 >>
        /\ calls[other] = << 0, 1 >>
        /\ TallyOf(data, key) = << 2, 1 >>
        /\ ret = RetValue(<< 2, 1 >>)

\* C4: ScoreStore.get returns (0, 0) for every card on disk that has never
\* received a scoring event, whatever decks and cards were created, scored
\* and deleted before.
C4_NeverScoredIsZero ==
    \A p \in DOMAIN files : \A i \in 1..Len(files[p].cards) :
        << p, files[p].cards[i].id >> \notin attempted
            => TallyOf(data, << p, files[p].cards[i].id >>) = << 0, 0 >>

\* C5: set_study_order("Original"), after any reorderings, navigation,
\* scoring and refreshes, makes the working list equal, id by id and in
\* order, to the list start_study was given.
C5_OriginalRestoresStartOrder ==
    study_order = "Original" => Ids(study_cards) = Ids(study_original_cards)
\* the original order of a three-card session in which a card was scored
C5_Witness ==
    /\ study_order = "Original"
    /\ Len(study_cards) = 3
    /\ study_index = 0
    /\ \E i \in 1..Len(study_cards) : study_cards[i].correct + study_cards[i].incorrect > 0

\* C6: mark_correct and mark_incorrect, called on a multiple-choice card or
\* on a free card still showing its front, record nothing in the ScoreStore.
C6_MarkOnlyOnFlippedFree ==
    [][(/\ study_cards # << >>
        /\ (CurrentCard.type = "mc" \/ study_showing_front)
        /\ (mark_correct \/ mark_incorrect))
          => UNCHANGED << data, scores_file >>]_vars

\* C7: submit_mc_answer, called while the current card is a free card,
\* records nothing in the ScoreStore and does not set scored.
C7_SubmitOnlyOnMc ==
    [][\A chosen \in Answers :
          (CurrentIs("free") /\ submit_mc_answer(chosen))
              => UNCHANGED << data, scores_file, study_scored >>]_vars

\* C8: submit_mc_answer(chosen) on an unscored multiple-choice card adds one
\* to the card's correct counter if chosen is the card's back and to its
\* incorrect counter otherwise, in the ScoreStore and on the session's card,
\* sets scored, leaves the index, and returns is_correct = (chosen = back)
\* with the card's back as the correct answer.
C8_SubmitScoresTheAnswer ==
    [][\A chosen \in Answers :
          (CurrentIs("mc") /\ ~study_scored /\ submit_mc_answer(chosen)) =>
              LET card == CurrentCard
                  key == registry[card.id]
                  after == study_cards'[study_index + 1]
                  right == (chosen = card.back)
              IN  /\ TallyOf(data', key) = IF right THEN PlusCorrect(TallyOf(data, key))
                                                    ELSE PlusIncorrect(TallyOf(data, key))
                  /\ << after.correct, after.incorrect >> =
                         IF right THEN PlusCorrect(<< card.correct, card.incorrect >>)
                                  ELSE PlusIncorrect(<< card.correct, card.incorrect >>)
                  /\ study_scored'
                  /\ study_index' = study_index
                  /\ ret'.kind = "mc"
                  /\ ret'.is_correct = right
                  /\ ret'.correct_answer = card.back]_vars
\* a wrong answer was just recorded on a multiple-choice card
C8_Witness ==
    /\ CurrentIs("mc")
    /\ study_scored
    /\ ret.kind = "mc"
    /\ ~ret.is_correct
    /\ ret.correct_answer = CurrentCard.back
    /\ TallyOf(data, registry[CurrentCard.id]) = << 0, 1 >>

\* C9, as the specification states it: flip_card on a free card showing its
\* front shows the back and changes nothing else; on a multiple-choice card
\* or on a free card already flipped it changes no state and returns None.
C9_FlipReturnsNoneWhenFlipped ==
    [][(study_cards # << >> /\ flip_card) =>
          IF CurrentCard.type = "free" /\ study_showing_front
          THEN /\ ~study_showing_front'
               /\ UNCHANGED << storage_vars, study_cards, study_original_cards, study_index,
                               study_scored, study_title, study_order >>
          ELSE /\ ret' = RetNone
               /\ UNCHANGED << storage_vars, study_vars >>]_vars

\* C9, as the code has it: flip_card on a free card showing its front shows
\* the back and changes nothing else; on a multiple-choice card it changes
\* no state and returns None; on a free card already flipped it changes no
\* state and returns the state snapshot.
C9_FlipReturnsStateWhenFlipped ==
    [][(study_cards # << >> /\ flip_card) =>
          IF CurrentCard.type = "free" /\ study_showing_front
          THEN /\ ~study_showing_front'
               /\ UNCHANGED << storage_vars, study_cards, study_original_cards, study_index,
                               study_scored, study_title, study_order >>
               /\ ret' = RetState([Snapshot EXCEPT !.showing_front = FALSE])
          ELSE /\ UNCHANGED << storage_vars, study_vars >>
               /\ ret' = IF CurrentCard.type = "mc" THEN RetNone ELSE RetState(Snapshot)]_vars
\* a free card showing its back, the last call having returned the snapshot
C9_Witness ==
    /\ CurrentIs("free")
    /\ ~study_showing_front
    /\ ret = RetState(Snapshot)

\* C10: in a session of count >= 1 cards next_card sets the index to
\* (index + 1) mod count and prev_card to (index - 1) mod count (the last
\* card wraps to 0, 0 wraps to the last, a one-card session stays at 0), and
\* both show the front, unscored, and leave the card list and the ScoreStore.
C10_NextPrevWrapAround ==
    [][study_cards # << >> =>
          LET count == Len(study_cards)
              reset == /\ study_showing_front'
                       /\ ~study_scored'
                       /\ UNCHANGED << study_cards, data, scores_file >>
          IN  /\ next_card =>
                    /\ study_index' = IF study_index = count - 1 THEN 0 ELSE study_index + 1
                    /\ reset
              /\ prev_card =>
                    /\ study_index' = IF study_index = 0 THEN count - 1 ELSE study_index - 1
                    /\ reset]_vars
\* back on the last card of a three-card session, which was scored before
C10_Witness ==
    /\ Len(study_cards) = 3
    /\ study_index = 2
    /\ study_showing_front
    /\ ~study_scored
    /\ incs = 0
    /\ ret = RetState(Snapshot)
    /\ study_cards[3].correct + study_cards[3].incorrect > 0

\* the card shown in the session is no longer on disk
CurrentIsStale ==
    /\ study_cards # << >>
    /\ DeckStorage_get_card_by_id(St, CurrentCard.id).ret = None

\* C11: when the card shown in the session was deleted since the session
\* started (by delete_card or by delete_deck), mark_correct, mark_incorrect
\* and submit_mc_answer return normally, without raising.
C11_StaleScoringReturns ==
    [][(/\ CurrentIsStale
        /\ \/ mark_correct
           \/ mark_incorrect
           \/ \E chosen \in Answers : submit_mc_answer(chosen))
          => ret'.kind # "raise"]_vars

\* get_card_by_id returns None for this session id
Absent(st, session_id) == DeckStorage_get_card_by_id(st, session_id).ret = None

\* C12: update_card and set_card_tags, called with a session id whose card
\* no longer exists (removed by delete_card, or by delete_deck on its deck),
\* return without raising and leave every deck, the ScoreStore and the
\* registry unchanged.
C12_StaleUpdateIsDropped ==
    [][\A session_id \in KnownSids :
          (/\ Absent(St, session_id)
           /\ \/ \E f \in UpdateForms : update_card(session_id, f[1], f[2], f[3], f[4])
              \/ \E tags \in TagLists : set_card_tags(session_id, tags))
              => (ret'.kind # "raise" /\ UNCHANGED storage_vars)]_vars

\* the storage as a step leaves it
StNext ==
    [files |-> files', data |-> data', scores_file |-> scores_file',
     registry |-> registry', reverse |-> reverse', next_sid |-> next_sid']

\* C13: after delete_deck(d), get_card_by_id returns None for every session
\* id that was registered for a card of d, no registry entry in either
\* direction refers to d, and the session ids of the cards of other decks
\* still resolve to the same cards.
C13_DeleteDeckPurgesIds ==
    [][\A d \in DOMAIN files :
          delete_deck(d) =>
              /\ \A sid \in DOMAIN registry :
                    IF registry[sid][1] = d
                    THEN Absent(StNext, sid)
                    ELSE /\ sid \in DOMAIN registry'
                         /\ registry'[sid] = registry[sid]
                         /\ DeckStorage_get_card_by_id(StNext, sid).ret
                                = DeckStorage_get_card_by_id(St, sid).ret
              /\ \A sid \in DOMAIN registry' : registry'[sid][1] # d
              /\ \A key \in DOMAIN reverse' : key[1] # d]_vars
\* the example deck was deleted: a session id handed out before is absent,
\* and the card of another deck is still found
C13_Witness ==
    /\ SeedTarget \notin DOMAIN files
    /\ ret = RetNone
    /\ \E sid \in KnownSids : sid \notin DOMAIN registry /\ Absent(St, sid)
    /\ \E sid \in DOMAIN registry : ~Absent(St, sid)

\* the session id was never handed out or is no longer registered, or its
\* deck file is missing or damaged
Unavailable(session_id) ==
    \/ session_id \notin DOMAIN registry
    \/ registry[session_id][1] \notin DOMAIN files
    \/ IsDamaged(files[registry[session_id][1]])

\* C14: get_card_by_id never raises: for a session id that was never
\* allocated or was deregistered, or whose deck is missing, unreadable or
\* malformed, it returns None and changes no state.
C14_GetCardNeverRaises ==
    [][\A session_id \in 1..next_sid :
          (Unavailable(session_id) /\ get_card_by_id(session_id))
              => (ret' = RetValue(None) /\ UNCHANGED storage_vars)]_vars

\* C15: the two registry maps are inverse of each other in every state
\* reached by get_cards, create_card, get_card_by_id, delete_card,
\* delete_deck and the tag operations: session id s maps to the pair
\* (deck path, local id) exactly when that pair maps to s.
C15_RegistryMapsAreInverse ==
    /\ \A sid \in DOMAIN registry :
          registry[sid] \in DOMAIN reverse /\ reverse[registry[sid]] = sid
    /\ \A key \in DOMAIN reverse :
          reverse[key] \in DOMAIN registry /\ registry[reverse[key]] = key
\* two cards are registered and a session id handed out earlier was dropped
C15_Witness ==
    /\ Cardinality(DOMAIN registry) >= 2
    /\ Cardinality(DOMAIN reverse) >= 2
    /\ \E sid \in 1..(next_sid - 1) : sid \notin DOMAIN registry

\* the local ids of the cards of a deck file
LocalIds(content) == { content.cards[i].id : i \in 1..Len(content.cards) }
\* next_id of every deck is above the local id of each of its cards
NextIdAbove(fs) == \A p \in DOMAIN fs : \A id \in LocalIds(fs[p]) : id < fs[p].next_id

\* C16: in every state each deck's next_id is strictly greater than the
\* local id of every card of the deck; and while a deck exists its next_id
\* never decreases and a card that appears in it gets a local id that is at
\* least the earlier next_id, so a local id is not given twice, also after
\* delete_card.
C16_NextIdAboveEveryCard ==
    [][/\ NextIdAbove(files)
       /\ NextIdAbove(files')
       /\ \A p \in DOMAIN files \cap DOMAIN files' :
             /\ files'[p].next_id >= files[p].next_id
             /\ \A id \in LocalIds(files'[p]) \ LocalIds(files[p]) :
                   id >= files[p].next_id]_vars
\* a private deck whose first card was deleted was given a second card
C16_Witness ==
    \E p \in DOMAIN files :
        /\ p # SeedTarget
        /\ files[p].next_id = 3
        /\ LocalIds(files[p]) = { 2 }
        /\ ret.kind = "value"

\* the card of this key is in its deck file
CardOnDisk(fs, key) == key[1] \in DOMAIN fs /\ key[2] \in LocalIds(fs[key[1]])

\* C17: within one run a session id, once allocated to a pair (deck path,
\* local id), stays that pair's id and is what every later reference to the
\* pair returns while the card exists; distinct pairs have distinct session
\* ids; and every newly allocated session id is one the counter has not
\* handed out before (all ids in use are below next_sid, new ones are not,
\* next_sid never decreases), so no id goes to a different pair, also after
\* the card or its deck was deleted.
C17_SessionIdsStable ==
    [][/\ next_sid' >= next_sid
       /\ \A sid \in DOMAIN registry : sid < next_sid
       /\ \A sid \in DOMAIN registry' :
             /\ sid < next_sid'
             /\ IF sid \in DOMAIN registry
                THEN registry'[sid] = registry[sid]
                ELSE sid >= next_sid
       /\ \A s1, s2 \in DOMAIN registry' : registry'[s1] = registry'[s2] => s1 = s2
       /\ \A key \in DOMAIN reverse :
             CardOnDisk(files', key) => (key \in DOMAIN reverse' /\ reverse'[key] = reverse[key])
       /\ \A key \in DOMAIN reverse :
             CardOnDisk(files', key) =>
                 LET listed == DeckStorage_get_cards(StNext, key[1]).ret
                     found == DeckStorage_get_card_by_id(StNext, reverse[key]).ret
                     i == DeckStorage_find(files'[key[1]], key[2])
                 IN  /\ listed[i][1] = reverse[key]
                     /\ found # None
                     /\ found[1][1] = reverse[key]
                     /\ DeckStorage_get_sid(StNext, key[1], key[2]).ret = reverse[key]]_vars
\* a session id was dropped, an earlier one is still registered and a later
\* one was allocated since
C17_Witness ==
    /\ ret.kind = "value"
    /\ \E s1, s2 \in DOMAIN registry :
          /\ s1 < s2
          /\ \E gone \in 1..(next_sid - 1) : gone \notin DOMAIN registry /\ s1 < gone /\ gone < s2

\* the list of wrong choices a choices argument stands for: None and [] both
\* stand for no choices
ChoicesOf(choices) == IF choices = None THEN << >> ELSE choices[1]

\* C18: for an existing deck and each front, back, card type and choices,
\* get_card_by_id on the session id returned by create_card yields a card
\* with that front, back and type and with the same list of wrong choices
\* (no choices when None or [] was given), and the new card is the last
\* card of its deck.
C18_CreateThenGetRoundTrip ==
    [][\A deck_path \in DOMAIN files, f \in StorageForms :
          (create_card(deck_path, f[1], f[2], f[3], f[4]) /\ ret'.kind = "value") =>
              LET found == DeckStorage_get_card_by_id(StNext, ret'.value).ret
                  card == AppController_tuple_to_card(found[1])
                  listed == DeckStorage_get_cards(StNext, deck_path).ret
              IN  /\ found # None
                  /\ card.id = ret'.value
                  /\ card.front = f[1]
                  /\ card.back = f[2]
                  /\ card.type = f[3]
                  /\ card.choices = ChoicesOf(f[4])
                  /\ Len(listed) = Len(files[deck_path].cards) + 1
                  /\ listed[Len(listed)] = found[1]]_vars
\* a multiple-choice card with a wrong choice was created behind another card
C18_Witness ==
    /\ ret.kind = "value"
    /\ \E p \in DOMAIN files :
          /\ Len(files[p].cards) = 2
          /\ files[p].cards[2].choices = Some(<< "B" >>)
          /\ << p, files[p].cards[2].id >> \in DOMAIN reverse
          /\ ret.value = reverse[<< p, files[p].cards[2].id >>]

\* C19: save_card asked to create a multiple-choice card with an empty list
\* of wrong choices returns a validation failure and persists no card: the
\* deck's cards and next_id are as before, no session id is allocated, and
\* nothing else in the storage changes.
C19_McWithoutChoicesRejected ==
    [][\A deck_path \in DOMAIN files :
          save_card(deck_path, None, "Q", "A", "mc", << >>, << >>) =>
              /\ ret' = RetFail("Add at least 1 wrong choice for multiple choice.")
              /\ files'[deck_path].cards = files[deck_path].cards
              /\ files'[deck_path].next_id = files[deck_path].next_id
              /\ next_sid' = next_sid
              /\ UNCHANGED storage_vars]_vars
\* the failure was returned while a private deck with a card and a
\* registered session id exist
C19_Witness ==
    /\ ret = RetFail("Add at least 1 wrong choice for multiple choice.")
    /\ \E p \in DOMAIN files : p # SeedTarget /\ files[p].cards # << >>
    /\ registry # EmptyDict

\* C20: create_deck and rename_deck with a name that is empty or only
\* blanks, and save_card (creating or editing) with an empty front or an
\* empty back, return (False, message) without raising and leave every
\* deck, the ScoreStore and the registry unchanged.
C20_InvalidInputChangesNothing ==
    [][(\/ \E name \in BlankNames : create_deck(name)
        \/ \E deck_path \in DOMAIN files, new_name \in BlankNames :
              rename_deck(deck_path, new_name)
        \/ \E deck_path \in DOMAIN files, f \in CardForms :
              /\ f[1] = "" \/ f[2] = ""
              /\ save_card(deck_path, None, f[1], f[2], f[3], f[4], f[5])
        \/ \E card_id \in KnownSids, f \in CardForms :
              /\ f[1] = "" \/ f[2] = ""
              /\ save_card(None, Some(card_id), f[1], f[2], f[3], f[4], f[5]))
          => (ret'.kind = "fail" /\ UNCHANGED storage_vars)]_vars
\* a name was refused while a private deck with a card and a registered
\* session id exist
C20_Witness ==
    /\ ret = RetFail("Name cannot be empty.")
    /\ \E p \in DOMAIN files : p # SeedTarget /\ files[p].cards # << >>
    /\ registry # EmptyDict

\* C21: after any sequence of successful save_card calls, creations and
\* edits, also edits that change a card's type, every card on disk of type
\* "mc" has at least one wrong choice and every card of type "free" has none.
C21_ChoicesMatchCardType ==
    \A p \in DOMAIN files : \A i \in 1..Len(files[p].cards) :
        LET card == files[p].cards[i]
        IN  /\ card.card_type = "mc" => (card.choices # None /\ Len(card.choices[1]) >= 1)
            /\ card.card_type = "free" => ~Truthy(card.choices)
\* the multiple-choice card of the example deck was saved as a free card,
\* next to a multiple-choice card in a private deck
C21_Witness ==
    /\ ret.kind = "ok"
    /\ \E i \in 1..Len(files[SeedTarget].cards) :
          /\ files[SeedTarget].cards[i].id = 1
          /\ files[SeedTarget].cards[i].card_type = "free"
          /\ files[SeedTarget].cards[i].choices = None
    /\ \E p \in DOMAIN files : \E i \in 1..Len(files[p].cards) :
          p # SeedTarget /\ files[p].cards[i].card_type = "mc"

\* a session card without attempts
Unattempted(c) == c.correct + c.incorrect = 0
\* the ratio correct / (correct + incorrect) of a is at most that of b, a
\* card without attempts counting as below every attempted card
RatioAtMost(a, b) ==
    IF Unattempted(a) THEN TRUE
    ELSE IF Unattempted(b) THEN FALSE
    ELSE a.correct * (b.correct + b.incorrect) <= b.correct * (a.correct + a.incorrect)

C23_LowestScoredKeepsStartOrder ==
    [][set_study_order("Lowest-scored") =>
          \A i, j \in 1..Len(study_cards') :
              (/\ i < j
               /\ RatioAtMost(study_cards'[i], study_cards'[j])
               /\ RatioAtMost(study_cards'[j], study_cards'[i]))
                  => IdRank(study_original_cards, study_cards'[i].id)
                         < IdRank(study_original_cards, study_cards'[j].id)]_vars

\* how often x occurs in the sequence s
Count(s, x) == Cardinality({ i \in 1..Len(s) : s[i] = x })
\* a is a reordering of b
IsPermutation(a, b) ==
    /\ Len(a) = Len(b)
    /\ \A i \in 1..Len(a) : Count(a, a[i]) = Count(b, a[i])

\* C24: after start_study with a non-empty card list, whatever the session
\* was before, the snapshot of the original order equals the list passed
\* in, the working list is a permutation of it, the index is 0, the front
\* is showing, the card is unscored and the order mode is "Random".
C24_StartStudyResets ==
    [][\A deck_path \in DOMAIN files :
          (start_study(deck_path) /\ files[deck_path].cards # << >>) =>
              LET cards == CardsOfTuples(DeckStorage_get_cards(St, deck_path).ret)
              IN  /\ study_original_cards' = cards
                  /\ IsPermutation(study_cards', cards)
                  /\ study_index' = 0
                  /\ study_showing_front'
                  /\ ~study_scored'
                  /\ study_order' = "Random"]_vars
\* a session of three cards started anew, in another order than the deck's,
\* after a card was scored in an earlier session
C24_Witness ==
    /\ ret = RetNone
    /\ Len(study_cards) = 3
    /\ study_cards # study_original_cards
    /\ study_index = 0
    /\ study_order = "Random"
    /\ \E i \in 1..3 : ~Unattempted(study_original_cards[i])

\* C25: set_study_order(mode), for "Random", "Original" and "Lowest-scored"
\* and from any session state, leaves the working list a permutation of the
\* same cards, sets the index to 0, shows the front, clears the scored flag,
\* records the mode, and changes neither the snapshot of the original order
\* nor the ScoreStore.
C25_SetOrderReordersAndResets ==
    [][\A mode \in OrderModes :
          set_study_order(mode) =>
              /\ IsPermutation(study_cards', study_cards)
              /\ study_index' = 0
              /\ study_showing_front'
              /\ ~study_scored'
              /\ study_order' = mode
              /\ UNCHANGED << study_original_cards, data, scores_file >>]_vars
\* a three-card session reordered after a card was scored: at the first
\* card, unscored, in another order than the original one
C25_Witness ==
    /\ Len(study_cards) = 3
    /\ ret = RetState(Snapshot)
    /\ study_order = "Lowest-scored"
    /\ study_index = 0
    /\ study_showing_front
    /\ ~study_scored
    /\ study_cards # study_original_cards
    /\ ~Unattempted(study_cards[3])
    /\ data # EmptyDict

\* C26: after every record_correct and record_incorrect has returned, the
\* score file holds the store as it is in memory: a ScoreStore opened from
\* the file between two operations is the same store, and its get returns
\* the same counts for every key.
C26_ScoreFileEqualsStore ==
    /\ ScoreStore_init(scores_file) = data
    /\ \A key \in RecordKeys :
          TallyOf(ScoreStore_init(scores_file), key) = TallyOf(data, key)
\* the file holds the counts of two cards, one of them answered both ways
C26_Witness ==
    /\ scores_file # None
    /\ \E key, other \in RecordKeys :
          /\ key # other
          /\ TallyOf(ScoreStore_init(scores_file), key) = << 2, 1 >>
          /\ TallyOf(ScoreStore_init(scores_file), other) = << 0, 1 >>

\* C27: rename_deck on an existing deck changes only the deck's name: its
\* path, its cards and their order, its tags and next_id, every other deck,
\* every session id registration and every ScoreStore entry, so the scores
\* of its cards, are as before.
C27_RenameChangesOnlyName ==
    [][\A deck_path \in DOMAIN files, new_name \in RenameNames :
          (rename_deck(deck_path, new_name) /\ ret'.kind = "ok") =>
              /\ DOMAIN files' = DOMAIN files
              /\ files'[deck_path].name = Strip(new_name)
              /\ files'[deck_path].cards = files[deck_path].cards
              /\ files'[deck_path].tags = files[deck_path].tags
              /\ files'[deck_path].next_id = files[deck_path].next_id
              /\ \A other \in DOMAIN files \ { deck_path } : files'[other] = files[other]
              /\ UNCHANGED << registry, reverse, next_sid, data, scores_file >>
              /\ \A i \in 1..Len(files[deck_path].cards) :
                    LET key == << deck_path, files[deck_path].cards[i].id >>
                    IN  TallyOf(data', key) = TallyOf(data, key)]_vars
\* a deck was renamed that holds a tagged card with a session id and a score
C27_Witness ==
    /\ ret = RetOk(None)
    /\ \E p \in DOMAIN files :
          /\ files[p].name = << "H" >>
          /\ \E i \in 1..Len(files[p].cards) :
                LET key == << p, files[p].cards[i].id >>
                IN  /\ key \in DOMAIN reverse
                    /\ files[p].cards[i].tags # << >>
                    /\ TallyOf(data, key)[1] > 0

\* C28: create_deck returns a path that no existing deck has, also when a
\* deck of the same name, or of a name with the same _safe_name, exists; it
\* leaves the content of every existing deck as it was, and the new deck
\* has the name given, no cards, no tags and next_id 1.
C28_CreateDeckTakesFreshPath ==
    [][\A name \in NewDeckNames :
          storage_create_deck(name, PRIVATE_DIR) =>
              LET path == ret'.value
              IN  /\ path \notin DOMAIN files
                  /\ DOMAIN files' = DOMAIN files \cup { path }
                  /\ \A other \in DOMAIN files : files'[other] = files[other]
                  /\ files'[path].name = name
                  /\ files'[path].cards = << >>
                  /\ files'[path].tags = << >>
                  /\ files'[path].next_id = 1]_vars
\* a second deck of a colliding name was created as G_2.json while G.json
\* holds a card
C28_Witness ==
    LET first == PathJoin(PRIVATE_DIR, << "G", ".json" >>)
        second == PathJoin(PRIVATE_DIR, << "G", "_", "2", ".json" >>)
    IN  /\ first \in DOMAIN files
        /\ second \in DOMAIN files
        /\ files[first].cards # << >>
        /\ files[second].cards = << >>
        /\ files[second].name = << "G", "?" >>

\* C29: delete_card on the session id of an existing card removes exactly
\* that card from its deck and the id from both directions of the registry;
\* the deck's other cards, their order and their session ids, the deck's
\* name, tags and next_id and every other deck are as before, and
\* get_card_by_id returns None for the deleted id afterwards.
C29_DeleteCardRemovesOnlyThatCard ==
    [][\A sid \in DOMAIN registry :
          (CardOnDisk(files, registry[sid]) /\ delete_card(sid)) =>
              LET p == registry[sid][1]
                  local_id == registry[sid][2]
                  cards == files[p].cards
                  others == { i \in 1..Len(cards) : cards[i].id # local_id }
              IN  /\ DOMAIN files' = DOMAIN files
                  /\ files'[p].cards = SelectIdx(cards, others, 1)
                  /\ Len(files'[p].cards) = Len(cards) - 1
                  /\ files'[p].name = files[p].name
                  /\ files'[p].tags = files[p].tags
                  /\ files'[p].next_id = files[p].next_id
                  /\ \A other \in DOMAIN files \ { p } : files'[other] = files[other]
                  /\ DOMAIN registry' = DOMAIN registry \ { sid }
                  /\ \A s \in DOMAIN registry' : registry'[s] = registry[s]
                  /\ DOMAIN reverse' = DOMAIN reverse \ { << p, local_id >> }
                  /\ \A key \in DOMAIN reverse' : reverse'[key] = reverse[key]
                  /\ next_sid' = next_sid
                  /\ Absent(StNext, sid)]_vars
\* the second card of a private deck was deleted: the first one is still
\* there under its session id
C29_Witness ==
    /\ ret = RetNone
    /\ \E p \in DOMAIN files :
          /\ p # SeedTarget
          /\ files[p].next_id = 3
          /\ LocalIds(files[p]) = { 1 }
          /\ << p, 1 >> \in DOMAIN reverse
          /\ << p, 2 >> \notin DOMAIN reverse
          /\ \E gone \in 1..(next_sid - 1) : gone \notin DOMAIN registry

\* C30: refresh_current_study_card replaces the current card of the session
\* by the card as the storage holds it now (front, back, type, choices and
\* the counters of the ScoreStore), keeps the index, the order mode, the
\* snapshot of the original order and every other card of the session, and
\* shows the front, unscored; when the card is no longer in the storage the
\* card of the session is kept and the flags are reset all the same.
C30_RefreshRereadsCurrentCard ==
    [][(study_cards # << >> /\ refresh_current_study_card) =>
          LET at == study_index + 1
              id == study_cards[at].id
              now == study_cards'[at]
          IN  /\ UNCHANGED << study_index, study_order, study_original_cards, study_title >>
              /\ Len(study_cards') = Len(study_cards)
              /\ \A i \in 1..Len(study_cards) : i # at => study_cards'[i] = study_cards[i]
              /\ study_showing_front'
              /\ ~study_scored'
              /\ IF id \in DOMAIN registry /\ CardOnDisk(files, registry[id])
                 THEN LET key == registry[id]
                          disk == files[key[1]].cards[DeckStorage_find(files[key[1]], key[2])]
                      IN  /\ now.id = id
                          /\ now.front = disk.front
                          /\ now.back = disk.back
                          /\ now.type = disk.card_type
                          /\ now.choices = ChoicesOf(disk.choices)
                          /\ << now.correct, now.incorrect >> = TallyOf(data, key)
                 ELSE now = study_cards[at]]_vars
\* the second card of the session was refreshed after it was edited in the
\* storage, and the first card of the session had been marked
C30_Witness ==
    /\ Len(study_cards) = 2
    /\ study_index = 1
    /\ ret = RetState(Snapshot)
    /\ study_showing_front
    /\ ~study_scored
    /\ study_cards[2].front = "Q2"
    /\ ~Unattempted(study_cards[1])
    /\ \A i \in 1..2 : study_original_cards[i].front # "Q2"

(***************************************************************************)
(* Tags counted.                                                           *)
(***************************************************************************)
\* the entries of a list of tags
TagsOf(tags) == { tags[k] : k \in 1..Len(tags) }
\* the cards <<deck path, position>> on disk, and those whose own tags include t
CardsOnDisk(fs) == UNION { { << p, k >> : k \in 1..Len(fs[p].cards) } : p \in DOMAIN fs }
CardsTagged(fs, t) == { c \in CardsOnDisk(fs) : t \in TagsOf(fs[c[1]].cards[c[2]].tags) }
DecksTagged(fs, t) == { p \in DOMAIN fs : t \in TagsOf(fs[p].tags) }
TagsInUse(fs) ==
    UNION { TagsOf(fs[p].tags) : p \in DOMAIN fs }
    \cup UNION { TagsOf(fs[c[1]].cards[c[2]].tags) : c \in CardsOnDisk(fs) }

\* C31: whatever lists set_card_tags and set_deck_tags were given, what
\* get_all_tags_with_counts returns has one entry per tag in use, sorted by
\* tag name, whose card count is the number of cards whose own tags include
\* the tag and whose deck count is the number of decks whose tags include it
C31_TagCountsAreCardsAndDecks ==
    \A paths \in DeckStorage_all_deck_paths(St) :
        LET r == DeckStorage_get_all_tags_with_counts(St, paths)
        IN  /\ { r[i][1] : i \in 1..Len(r) } = TagsInUse(files)
            /\ \A i, j \in 1..Len(r) : i < j => StrLess(r[i][1], r[j][1])
            /\ \A i \in 1..Len(r) :
                  /\ r[i][2] = Cardinality(CardsTagged(files, r[i][1]))
                  /\ r[i][3] = Cardinality(DecksTagged(files, r[i][1]))

\* C32: on a free card that was flipped and is not yet scored, mark_correct
\* adds one to the correct counter of the card's ScoreStore entry and
\* mark_incorrect one to its incorrect counter, so that a card never scored
\* stands at (1, 0) or (0, 1); scored becomes true and the entry of no other
\* card changes.
C32_MarkScoresTheCurrentCardOnly ==
    [][(CurrentIs("free") /\ ~study_showing_front /\ ~study_scored) =>
          LET key == registry[CurrentCard.id]
              others == \A k \in ScoreKeys \ { key } : TallyOf(data', k) = TallyOf(data, k)
          IN  /\ mark_correct =>
                    /\ TallyOf(data', key) = PlusCorrect(TallyOf(data, key))
                    /\ TallyOf(data, key) = << 0, 0 >> => TallyOf(data', key) = << 1, 0 >>
                    /\ study_scored'
                    /\ others
              /\ mark_incorrect =>
                    /\ TallyOf(data', key) = PlusIncorrect(TallyOf(data, key))
                    /\ TallyOf(data, key) = << 0, 0 >> => TallyOf(data', key) = << 0, 1 >>
                    /\ study_scored'
                    /\ others]_vars
\* a flipped free card, never scored before, was just marked correct, and no
\* other card has a score
C32_Witness ==
    /\ CurrentIs("free")
    /\ ~study_showing_front
    /\ study_scored
    /\ incs = 1
    /\ TallyOf(data, registry[CurrentCard.id]) = << 1, 0 >>
    /\ \A k \in ScoreKeys \ { registry[CurrentCard.id] } : TallyOf(data, k) = << 0, 0 >>

\* C33: in any run of navigation (next_card, prev_card, set_study_order,
\* refresh_current_study_card, start_study), of deck and card operations
\* (rename, update, tags, deletions, creations) and of scoring, no counter
\* of the ScoreStore ever decreases, and the ScoreStore changes only in a
\* step that records an answer.
C33_CountersOnlyGrowByScoring ==
    [][/\ \A k \in ScoreKeys :
             /\ TallyOf(data', k)[1] >= TallyOf(data, k)[1]
             /\ TallyOf(data', k)[2] >= TallyOf(data, k)[2]
       /\ data' # data => incs' = incs + 1]_vars
\* a card that was scored is no longer on disk, its deck was renamed and
\* the session has moved on, and its counter is still there
C33_Witness ==
    /\ TallyOf(data, << SeedTarget, 1 >>) = << 2, 0 >>
    /\ SeedTarget \in DOMAIN files
    /\ files[SeedTarget].cards = << >>
    /\ files[SeedTarget].name = << "H" >>
    /\ PrivateDecks # {}
    /\ study_cards # << >>
    /\ ~study_scored

\* C34: in every state of a session started with at least one card,
\* 0 <= index < number of session cards, whatever sequence of next_card,
\* prev_card, set_study_order, flip_card, scoring and
\* refresh_current_study_card calls was made: get_study_state has a current
\* card.
C34_IndexWithinSession ==
    study_cards # << >> => (0 <= study_index /\ study_index < Len(study_cards))
\* the session stands on the last of its cards, which was scored, after the
\* list was put in an order other than the first shuffle
C34_Witness ==
    /\ Len(study_cards) = 2
    /\ study_index = 1
    /\ study_scored
    /\ study_order = "Lowest-scored"

\* C35: in every state of a session the working card list holds exactly the
\* card ids of the snapshot taken by start_study, each exactly once: no
\* navigation, scoring, set_study_order in any mode or
\* refresh_current_study_card adds, drops or duplicates a session card.
C35_SessionCardsArePermutation ==
    /\ IsPermutation(Ids(study_cards), Ids(study_original_cards))
    /\ \A i, j \in 1..Len(study_cards) : study_cards[i].id = study_cards[j].id => i = j
\* a session reordered by score after a card was scored, whose working list
\* is not in the order of the snapshot
C35_Witness ==
    /\ Len(study_cards) = 2
    /\ study_order = "Lowest-scored"
    /\ Ids(study_cards) # Ids(study_original_cards)
    /\ \E i \in 1..Len(study_cards) : study_cards[i].correct + study_cards[i].incorrect > 0

\* C36: in every state of a session whose cards start_study loaded from the
\* storage, the correct and incorrect counters on each session card equal
\* ScoreStore.get of that card, whatever scoring, navigation, reordering and
\* refresh calls the session has seen.
C36_SessionCountersEqualStore ==
    \A i \in 1..Len(study_cards) :
        << study_cards[i].correct, study_cards[i].incorrect >>
            = TallyOf(data, registry[study_cards[i].id])
\* a session card answered once right and once wrong, the session now
\* standing on the other card
C36_Witness ==
    /\ Len(study_cards) = 2
    /\ \E i \in 1..Len(study_cards) :
          /\ i # study_index + 1
          /\ << study_cards[i].correct, study_cards[i].incorrect >> = << 1, 1 >>

\* C37: scores and deck content are stored apart: a step that records an
\* answer (record_correct, record_incorrect, mark_correct, mark_incorrect,
\* submit_mc_answer) changes no deck's name, tags, cards or next_id, and any
\* other step (create_deck, rename_deck, create_card, update_card, the tag
\* setters, delete_card, delete_deck) changes nothing of the ScoreStore.
C37_ScoresAndDecksApart ==
    [][IF calls' # calls
       THEN files' = files
       ELSE data' = data /\ scores_file' = scores_file]_vars
\* the example deck was renamed and tagged and its card scored twice,
\* edited, tagged and then deleted, and a private deck holds a card
C37_Witness ==
    /\ SeedTarget \in DOMAIN files
    /\ files[SeedTarget].name = << "H" >>
    /\ files[SeedTarget].tags # << >>
    /\ files[SeedTarget].cards = << >>
    /\ TallyOf(data, << SeedTarget, 1 >>) = << 1, 1 >>
    /\ \E p \in PrivateDecks : Len(files[p].cards) = 1

\* C38: whenever the current session card is a multiple-choice card the
\* session shows its front: no sequence of flip_card, scoring, navigation,
\* set_study_order and refresh_current_study_card calls leaves a
\* multiple-choice card flipped.
C38_McCardShowsFront ==
    CurrentIs("mc") => study_showing_front
\* the multiple-choice card is current and was answered, after the free
\* card of the session was scored
C38_Witness ==
    /\ CurrentIs("mc")
    /\ study_scored
    /\ study_showing_front
    /\ \E i \in 1..Len(study_cards) :
          /\ study_cards[i].type = "free"
          /\ study_cards[i].correct + study_cards[i].incorrect > 0

\* the cards <<deck path, local id>> on disk of which a selected tag is among
\* the card's own tags or among the tags of its deck
CardsMatching(fs, tag_names) ==
    { << c[1], fs[c[1]].cards[c[2]].id >> :
        c \in { d \in CardsOnDisk(fs) :
                  \E t \in TagsOf(tag_names) :
                      \/ t \in TagsOf(fs[d[1]].cards[d[2]].tags)
                      \/ t \in TagsOf(fs[d[1]].tags) } }

\* C39: whatever tags the cards and the decks carry and whatever tags are
\* selected, build_study_cards_for_tags returns each card at most once and
\* exactly the cards of which a selected tag is among the card's own tags or
\* among its deck's tags, and returns None with a message, not an empty
\* list, when no card matches.
C39_BuildCollectsMatchingCardsOnce ==
    \A tag_names \in CountedTagLists :
        \A paths \in DeckStorage_all_deck_paths(St) :
            LET b == AppController_build_study_cards_for_tags(St, tag_names, paths)
                cards == b.ret[1][1]
            IN  IF CardsMatching(files, tag_names) = {}
                THEN b.ret[1] = None /\ b.ret[2] # << >>
                ELSE /\ b.ret[1] # None
                     /\ cards # << >>
                     /\ \A i, j \in 1..Len(cards) : cards[i].id = cards[j].id => i = j
                     /\ { b.st.registry[cards[i].id] : i \in 1..Len(cards) }
                            = CardsMatching(files, tag_names)
\* two tags were selected, both carried by one card, one of them by the
\* deck too and none by the other card itself, and the call returned the
\* two cards of the deck
C39_Witness ==
    /\ ret.kind = "ok"
    /\ "cards" \in DOMAIN ret.value
    /\ Len(ret.value.cards) = 2
    /\ ret.value.title = << "Tags: ", "u", ", ", "t" >>
    /\ files[SeedTarget].tags = << << "u" >> >>
    /\ \E i, j \in 1..2 :
          /\ files[SeedTarget].cards[i].tags = << << "u" >>, << "t" >> >>
          /\ files[SeedTarget].cards[j].tags = << >>

=============================================================================
